---- MODULE Spec2Model ----
(***************************************************************************)
(* Model of quikgit's concurrent orchestration core:                       *)
(*   - github.CloneManager        (internal/github/clone.go)               *)
(*   - install.Manager            (internal/install, unnamed/part_001)     *)
(*   - detect.Detector            (internal/detect,  unnamed/part_001)     *)
(* together with the callers that start a batch and the reader of the      *)
(* progress channel.                                                       *)
(*                                                                         *)
(* One behaviour runs one call site (variable site, fixed at Init):        *)
(*   "api"      any sequence of CloneRepository / CloneRepositories calls  *)
(*              followed by Wait(), with any concurrency argument          *)
(*   "models"   models.CloningModel.startCloning: CloneRepositories(..,3)  *)
(*              then Wait()                                                *)
(*   "ui"       ui.CloningManager.performCloning: CloneRepositories(..,3), *)
(*              no Wait()                                                  *)
(*   "install"  install.NewManager(c, t) then InstallDependencies(paths)   *)
(*                                                                         *)
(* Further specifications over the same variables follow one part each:    *)
(*   CloneSiteSpec    the clone call sites with their consumers: "ui"      *)
(*                    (ui.CloningManager) and "tea" (bubbletea             *)
(*                    CloningModel), layout choice and counters included   *)
(*   InstallSiteSpec  ui.InstallationManager with its consumer             *)
(*   ExecSpec         one executeCommand call, goroutine by goroutine      *)
(*   DetectSpec       one DetectPrimaryProject call on any directory       *)
(*   TeaInstallSpec   the bubbletea InstallationModel on one path, with    *)
(*                    every InstallDependencies call it starts             *)
(*   CallSpec         one call of cloneWorker's authentication choice or   *)
(*                    of progressWriter.Write, on any input                *)
(***************************************************************************)
EXTENDS Integers, Sequences, FiniteSets, TLC

\* ------------------------------------------------------------------ bounds
\* number of work items: repositories a clone call site has selected, and the
\* most paths handed to InstallDependencies (0..NumItems paths are tried)
NumItems == 2
\* CloneRepositories calls made by the "api" caller
MaxBatches == 1
\* Buffer size of the progress channels in the model.  The code makes them
\* with capacity 100 (clone.go:41, part_001:918); the managers only ever
\* distinguish "has room" from "full", so the model fills a smaller buffer.
ChanCap == 1
\* largest concurrent argument the "api" and "install" callers pass (0..Max)
MaxConcurrentArg == 1

\* lines the subprocess of one executeCommand call writes to stdout (0..MaxLines)
MaxLines == 1
\* ticks of the 2 s ticker of one executeCommand call
MaxTicks == 1

\* ------------------------------------------------------- program constants
\* clone.go:66 / part_001:911   "concurrent = 3"
DefaultConcurrent == 3
\* concurrency every call site of the repository passes
CallSiteConcurrent == 3

Repos == 1..NumItems
Batches == 1..MaxBatches

\* ===================================================== detect.Detector
\* detect.JSFrameworkDetectors (part_001:27-148): Name, Files and, of each
\* Command, the command line ("Command Args...") and Required.
JSFrameworkDetectors ==
    <<
      [Name |-> "Next.js (Yarn Package)",
       Files |-> <<"package.json", "yarn.lock">>,
       Commands |-> <<[Command |-> "yarn install", Required |-> TRUE]>>],
      [Name |-> "Next.js (Package)",
       Files |-> <<"package.json">>,
       Commands |-> <<[Command |-> "npm install", Required |-> TRUE]>>],
      [Name |-> "Vue.js (Yarn Package)",
       Files |-> <<"package.json", "yarn.lock">>,
       Commands |-> <<[Command |-> "yarn install", Required |-> TRUE]>>],
      [Name |-> "Vue.js (Package)",
       Files |-> <<"package.json">>,
       Commands |-> <<[Command |-> "npm install", Required |-> TRUE]>>],
      [Name |-> "Angular (Yarn Package)",
       Files |-> <<"package.json", "yarn.lock">>,
       Commands |-> <<[Command |-> "yarn install", Required |-> TRUE]>>],
      [Name |-> "Angular (Package)",
       Files |-> <<"package.json">>,
       Commands |-> <<[Command |-> "npm install", Required |-> TRUE]>>],
      [Name |-> "React (Yarn Package)",
       Files |-> <<"package.json", "yarn.lock">>,
       Commands |-> <<[Command |-> "yarn install", Required |-> TRUE]>>],
      [Name |-> "React (Package)",
       Files |-> <<"package.json">>,
       Commands |-> <<[Command |-> "npm install", Required |-> TRUE]>>]
    >>

\* detect.SupportedProjects (part_001:150-592), in declaration order
SupportedProjects ==
    <<
      [Name |-> "Go",
       Files |-> <<"go.mod", "go.sum", "*.go">>,
       Commands |-> <<[Command |-> "go mod tidy", Required |-> TRUE], [Command |-> "go mod download", Required |-> FALSE]>>],
      [Name |-> "Node.js (npm)",
       Files |-> <<"package.json", "package-lock.json">>,
       Commands |-> <<[Command |-> "npm install", Required |-> TRUE]>>],
      [Name |-> "Node.js (yarn)",
       Files |-> <<"package.json", "yarn.lock">>,
       Commands |-> <<[Command |-> "yarn install", Required |-> TRUE]>>],
      [Name |-> "Python (pip)",
       Files |-> <<"requirements.txt">>,
       Commands |-> <<[Command |-> "pip install -r requirements.txt", Required |-> TRUE]>>],
      [Name |-> "Python (Pipenv)",
       Files |-> <<"Pipfile">>,
       Commands |-> <<[Command |-> "pipenv install", Required |-> TRUE]>>],
      [Name |-> "Python (Poetry)",
       Files |-> <<"pyproject.toml", "poetry.lock">>,
       Commands |-> <<[Command |-> "poetry install", Required |-> TRUE]>>],
      [Name |-> "Ruby (Bundler)",
       Files |-> <<"Gemfile">>,
       Commands |-> <<[Command |-> "bundle install", Required |-> TRUE]>>],
      [Name |-> "Rust",
       Files |-> <<"Cargo.toml">>,
       Commands |-> <<[Command |-> "cargo build", Required |-> TRUE]>>],
      [Name |-> "PHP (Composer)",
       Files |-> <<"composer.json">>,
       Commands |-> <<[Command |-> "composer install", Required |-> TRUE]>>],
      [Name |-> "Java (Maven)",
       Files |-> <<"pom.xml">>,
       Commands |-> <<[Command |-> "mvn install", Required |-> TRUE]>>],
      [Name |-> "Java (Gradle)",
       Files |-> <<"build.gradle", "build.gradle.kts">>,
       Commands |-> <<[Command |-> "gradle build", Required |-> TRUE]>>],
      [Name |-> "C++ (CMake)",
       Files |-> <<"CMakeLists.txt">>,
       Commands |-> <<[Command |-> "cmake . -B build", Required |-> TRUE], [Command |-> "make -C build", Required |-> FALSE]>>],
      [Name |-> "C# (.NET)",
       Files |-> <<"*.csproj", "*.sln">>,
       Commands |-> <<[Command |-> "dotnet restore", Required |-> TRUE], [Command |-> "dotnet build", Required |-> FALSE]>>],
      [Name |-> "Swift",
       Files |-> <<"Package.swift">>,
       Commands |-> <<[Command |-> "swift build", Required |-> TRUE]>>],
      [Name |-> "Dart (Flutter)",
       Files |-> <<"pubspec.yaml">>,
       Commands |-> <<[Command |-> "flutter pub get", Required |-> TRUE]>>],
      [Name |-> "Next.js",
       Files |-> <<"next.config.js", "next.config.mjs", "next.config.ts", "pages/", "app/">>,
       Commands |-> <<[Command |-> "npm install", Required |-> TRUE]>>],
      [Name |-> "Next.js (Yarn)",
       Files |-> <<"yarn.lock", "next.config.js", "next.config.mjs", "next.config.ts", "pages/", "app/">>,
       Commands |-> <<[Command |-> "yarn install", Required |-> TRUE]>>],
      [Name |-> "Vue.js",
       Files |-> <<"vue.config.js", "vite.config.js", "src/main.js", "src/App.vue">>,
       Commands |-> <<[Command |-> "npm install", Required |-> TRUE]>>],
      [Name |-> "Vue.js (Yarn)",
       Files |-> <<"yarn.lock", "vue.config.js", "vite.config.js", "src/main.js", "src/App.vue">>,
       Commands |-> <<[Command |-> "yarn install", Required |-> TRUE]>>],
      [Name |-> "Angular",
       Files |-> <<"angular.json", "src/app/app.module.ts">>,
       Commands |-> <<[Command |-> "npm install", Required |-> TRUE]>>],
      [Name |-> "Angular (Yarn)",
       Files |-> <<"yarn.lock", "angular.json", "src/app/app.module.ts">>,
       Commands |-> <<[Command |-> "yarn install", Required |-> TRUE]>>],
      [Name |-> "Svelte",
       Files |-> <<"svelte.config.js", "src/App.svelte">>,
       Commands |-> <<[Command |-> "npm install", Required |-> TRUE]>>],
      [Name |-> "SvelteKit",
       Files |-> <<"svelte.config.js", "src/app.html">>,
       Commands |-> <<[Command |-> "npm install", Required |-> TRUE]>>],
      [Name |-> "Nuxt.js",
       Files |-> <<"nuxt.config.js", "nuxt.config.ts">>,
       Commands |-> <<[Command |-> "npm install", Required |-> TRUE]>>],
      [Name |-> "Gatsby",
       Files |-> <<"gatsby-config.js", "gatsby-config.ts">>,
       Commands |-> <<[Command |-> "npm install", Required |-> TRUE]>>],
      [Name |-> "Vite",
       Files |-> <<"vite.config.js", "vite.config.ts">>,
       Commands |-> <<[Command |-> "npm install", Required |-> TRUE]>>],
      [Name |-> "Astro",
       Files |-> <<"astro.config.mjs", "astro.config.js">>,
       Commands |-> <<[Command |-> "npm install", Required |-> TRUE]>>],
      [Name |-> "Remix",
       Files |-> <<"remix.config.js", "app/entry.client.tsx">>,
       Commands |-> <<[Command |-> "npm install", Required |-> TRUE]>>]
    >>

\* A project directory: its entries (name relative to the directory, file
\* extension, is-a-directory, below-a-subdirectory) and what package.json
\* holds: whether json.Unmarshal rejects it (Malformed), and the names under
\* dependencies / devDependencies.
Package(deps, devDeps) ==
    [Malformed |-> FALSE, Dependencies |-> deps, DevDependencies |-> devDeps]

NoPackage == Package({}, {})

MalformedPackage == [Malformed |-> TRUE, Dependencies |-> {}, DevDependencies |-> {}]

\* strings.Contains(pattern, "*")  (part_001:776)
IsGlob(pattern) == pattern \in {"*.go", "*.csproj", "*.sln"}

\* the extension a "*.ext" pattern of the catalog asks for
GlobExt(pattern) ==
    CASE pattern = "*.go" -> "go"
      [] pattern = "*.csproj" -> "csproj"
      [] pattern = "*.sln" -> "sln"

\* strings.HasSuffix(pattern, "/")  (part_001:791)
IsDirPattern(pattern) == pattern \in {"pages/", "app/"}

\* the path os.Stat resolves for a pattern with a trailing slash
DirPatternName(pattern) == IF pattern = "pages/" THEN "pages" ELSE "app"

\* Detector.hasMatchingFiles (part_001:775-796)
hasMatchingFiles(d, pattern) ==
    IF IsGlob(pattern)
    THEN \E e \in d.entries : ~e.nested /\ e.ext = GlobExt(pattern)
    ELSE IF IsDirPattern(pattern)
    THEN \E e \in d.entries : e.name = DirPatternName(pattern) /\ e.isDir
    ELSE \E e \in d.entries : e.name = pattern

\* (mutant) the decoder's error is not looked at
parsePackageJSONOk_NoErrorCheck(d) ==
    \E e \in d.entries : e.name = "package.json" /\ ~e.isDir

\* Detector.parsePackageJSON succeeds (part_001:608-622)
parsePackageJSONOk(d) ==
    /\ \E e \in d.entries : e.name = "package.json" /\ ~e.isDir
    /\ ~d.pkg.Malformed

\* (mutant) only the dependencies map is searched
hasPackageDependency_DependenciesOnly(d, depNames) ==
    /\ parsePackageJSONOk(d)
    /\ \E n \in depNames : n \in d.pkg.Dependencies

\* Detector.hasPackageDependency (part_001:624-639)
hasPackageDependency(d, depNames) ==
    /\ parsePackageJSONOk(d)
    /\ \E n \in depNames : n \in d.pkg.Dependencies \/ n \in d.pkg.DevDependencies

\* Detector.matchesJSFramework (part_001:663-693)
matchesJSFramework(d, project) ==
    /\ hasMatchingFiles(d, "package.json")
    /\ LET hasYarnLock == hasMatchingFiles(d, "yarn.lock")
       IN CASE project.Name = "Next.js (Yarn Package)" ->
                 hasYarnLock /\ hasPackageDependency(d, {"next"})
            [] project.Name = "Next.js (Package)" ->
                 ~hasYarnLock /\ hasPackageDependency(d, {"next"})
            [] project.Name = "Vue.js (Yarn Package)" ->
                 hasYarnLock /\ hasPackageDependency(d, {"vue", "@vue/cli", "nuxt"})
            [] project.Name = "Vue.js (Package)" ->
                 ~hasYarnLock /\ hasPackageDependency(d, {"vue", "@vue/cli", "nuxt"})
            [] project.Name = "Angular (Yarn Package)" ->
                 hasYarnLock /\ hasPackageDependency(d, {"@angular/core", "@angular/cli"})
            [] project.Name = "Angular (Package)" ->
                 ~hasYarnLock /\ hasPackageDependency(d, {"@angular/core", "@angular/cli"})
            [] project.Name = "React (Yarn Package)" ->
                 /\ hasYarnLock /\ hasPackageDependency(d, {"react"})
                 /\ ~hasPackageDependency(d, {"next", "gatsby", "@remix-run/react"})
            [] project.Name = "React (Package)" ->
                 /\ ~hasYarnLock /\ hasPackageDependency(d, {"react"})
                 /\ ~hasPackageDependency(d, {"next", "gatsby", "@remix-run/react"})
            [] OTHER -> FALSE

\* Detector.matchesProject (part_001:766-773)
matchesProject(d, project) ==
    \E k \in 1..Len(project.Files) : hasMatchingFiles(d, project.Files[k])

\* Detector.DetectProjects (part_001:641-661)
DetectProjects(d) ==
    LET js(project) == matchesJSFramework(d, project)
        file(project) == matchesProject(d, project)
    IN SelectSeq(JSFrameworkDetectors, js) \o SelectSeq(SupportedProjects, file)

\* the priorities map of DetectPrimaryProject (part_001:706-747)
priorities ==
    ("Next.js (Yarn Package)" :> 35) @@ ("Next.js (Package)" :> 34) @@
    ("Angular (Yarn Package)" :> 33) @@ ("Angular (Package)" :> 32) @@
    ("Vue.js (Yarn Package)" :> 31) @@ ("Vue.js (Package)" :> 30) @@
    ("React (Yarn Package)" :> 29) @@ ("React (Package)" :> 28) @@
    ("Next.js (Yarn)" :> 25) @@ ("Next.js" :> 24) @@ ("Nuxt.js" :> 23) @@
    ("Gatsby" :> 22) @@ ("Remix" :> 21) @@ ("Angular (Yarn)" :> 20) @@
    ("Angular" :> 19) @@ ("Vue.js (Yarn)" :> 18) @@ ("Vue.js" :> 17) @@
    ("SvelteKit" :> 16) @@ ("Svelte" :> 15) @@ ("Astro" :> 14) @@ ("Vite" :> 13) @@
    ("Node.js (yarn)" :> 12) @@ ("Node.js (npm)" :> 11) @@
    ("Python (Poetry)" :> 10) @@ ("Python (Pipenv)" :> 9) @@ ("Python (pip)" :> 8) @@
    ("Go" :> 7) @@ ("Rust" :> 6) @@ ("Java (Gradle)" :> 5) @@ ("Java (Maven)" :> 4) @@
    ("Ruby (Bundler)" :> 3) @@ ("Dart (Flutter)" :> 2) @@ ("Swift" :> 1)

\* the nil *ProjectType
NilProject == [Name |-> "", Files |-> <<>>, Commands |-> <<>>]

\* (mutant) the loop stops at the first project that has a priority
BestFrom_FirstRanked(projects, k, best, bestPriority) ==
    LET ranked == {j \in k..Len(projects) : projects[j].Name \in DOMAIN priorities}
    IN IF ranked = {} THEN best
       ELSE projects[CHOOSE j \in ranked : \A h \in ranked : j <= h]

\* the loop of DetectPrimaryProject (part_001:749-757) from position k on,
\* with the best project and priority found so far
RECURSIVE BestFrom(_, _, _, _)
BestFrom(projects, k, best, bestPriority) ==
    IF k > Len(projects) THEN best
    ELSE IF projects[k].Name \in DOMAIN priorities
            /\ priorities[projects[k].Name] > bestPriority
         THEN BestFrom(projects, k + 1, projects[k], priorities[projects[k].Name])
         ELSE BestFrom(projects, k + 1, best, bestPriority)

\* (mutant) without a ranked match the last match is returned
DetectPrimaryProject_LastMatch(d) ==
    LET projects == DetectProjects(d)
        best == BestFrom(projects, 1, NilProject, -1)
    IN IF Len(projects) = 0 THEN NilProject
       ELSE IF best = NilProject THEN projects[Len(projects)]
       ELSE best

\* (mutant) without a ranked match nothing is returned
DetectPrimaryProject_NoFallback(d) ==
    LET projects == DetectProjects(d)
    IN IF Len(projects) = 0 THEN NilProject
       ELSE BestFrom(projects, 1, NilProject, -1)

\* Detector.DetectPrimaryProject (part_001:695-764); it never returns an error
DetectPrimaryProject(d) ==
    LET projects == DetectProjects(d)
        best == BestFrom(projects, 1, NilProject, -1)
    IN IF Len(projects) = 0 THEN NilProject
       ELSE IF best = NilProject THEN projects[1]
       ELSE best

\* Directories the install call sites are run on in the model
File(name, ext) == [name |-> name, ext |-> ext, isDir |-> FALSE, nested |-> FALSE]

SampleDirs ==
    [plain |-> [entries |-> {File("README.md", "md")}, pkg |-> NoPackage],
     go    |-> [entries |-> {File("go.mod", "mod"), File("main.go", "go")},
                pkg |-> NoPackage],
     rust  |-> [entries |-> {File("Cargo.toml", "toml")}, pkg |-> NoPackage]]

DirKinds == DOMAIN SampleDirs

VARIABLES
    site,            \* the call site this behaviour runs
    ctxCancelled,    \* ctx.Err() != nil : the batch's shared cancellation signal
    fs,              \* paths that exist on disk (below targetDir)
    \* --- github.CloneManager
    cm_createSubdirs,\* cm.createSubdirs
    cm_progress,     \* cm.progress : buffered channel of CloneProgress
    cm_closed,       \* close(cm.progress) has run
    cm_wg,           \* cm.wg counter
    semaphore,       \* per CloneRepositories call: tokens in its semaphore channel
    semCap,          \* per CloneRepositories call: cap(semaphore)
    concurrentArg,   \* per CloneRepositories call: the caller's concurrent argument
    nCalls,          \* CloneRepositories calls made so far
    batchOf,         \* per repo: 0 = not started / CloneRepository, b = b-th batch
    cw,              \* per repo: position of its worker goroutine
    progress,        \* per repo: cloneWorker's local CloneProgress value
    callerpc,        \* position of the goroutine that calls the manager
    \* --- install.Manager
    newManagerArg,   \* the concurrent argument given to install.NewManager
    m_concurrent,    \* m.concurrent
    m_skipOnError,   \* m.skipOnError
    m_progress,      \* m.progress : buffered channel of InstallProgress
    m_closed,        \* close(m.progress) has run
    repositories,    \* InstallDependencies' argument: per path, the directory there
    results,         \* the results slice of InstallDependencies
    inst_wg,         \* the WaitGroup of InstallDependencies
    inst_semaphore,  \* tokens in the semaphore channel of InstallDependencies
    iw,              \* per path: position of its worker goroutine
    result,          \* per path: installForRepository's local InstallResult
    projectType,     \* per path: installForRepository's local projectType
    allSuccessful,   \* per path: installForRepository's local allSuccessful
    executed,        \* per path: number of subprocesses started for it
    \* --- reader of the channel and history
    termRecv,        \* per item: completed=true events the reader received
    termDropped,     \* items whose completed=true event was dropped on a full buffer
    cloneInvoked,    \* repos for which git.PlainCloneContext was called
    statFound,       \* per repo: what os.Stat(targetPath) found ("", "exists", "absent")
    \* --- the batch the call site selected
    repo_Name,       \* per repo: repo.Name
    \* --- the orchestrating UI of a clone batch (ui.CloningManager, part_011;
    \*     bubbletea CloningModel, part_006)
    config_CreateSubdirs, \* app.config.Clone.CreateSubdirs
    autoSubdirs,     \* m.autoSubdirs
    cloneStarted,    \* m.cloneStarted
    teapc,           \* bubbletea: what the program's message loop is at
    teamsg,          \* bubbletea: the CloneProgressMsg on its way to Update
    statuses,        \* per repo: statuses[repo.FullName] ("" when absent)
    completed,       \* repos with completed[repo.FullName]
    errors,          \* repos with an entry in the errors map
    successCount,    \* successCount
    errorCount,      \* errorCount
    allCompleted,    \* allCompleted
    \* --- one executeCommand call seen goroutine by goroutine (part_001:1054-1189)
    gpc,             \* per goroutine of the call: its position
    stdoutLines,     \* lines the subprocess has still to write to stdout
    procExited,      \* the subprocess has exited
    done_closed,     \* close(done) has run
    exec_wg,         \* the WaitGroup of the two pipe readers
    ticks,           \* ticks of the 2 s ticker delivered so far
    \* --- one detection (detect.Detector)
    det_dir,         \* the directory at d.projectPath
    det_result,      \* Name of what DetectPrimaryProject returned ("?" before the call)
    det_again,       \* Name of what a second call on the same directory returned
    \* --- bubbletea InstallationModel (search.go)
    started,         \* m.started
    invpc,           \* per InstallDependencies call monitorProgress starts: its position
    \* --- one call of a function of clone.go on its own
    auth_in,         \* cloneWorker's authentication choice: what it reads
    auth_out,        \* the transport and credentials it passes to PlainCloneContext
    pw_in,           \* progressWriter.Write: the bytes written
    pw_out           \* the CloneProgress it sends ("?" before the call)

cloneVars == <<cm_createSubdirs, cm_progress, cm_closed, cm_wg, semaphore, semCap,
               concurrentArg, nCalls, batchOf, cw, progress, cloneInvoked, statFound>>
installVars == <<newManagerArg, m_concurrent, m_skipOnError, m_progress, m_closed,
                 repositories, results, inst_wg, inst_semaphore, iw, result,
                 projectType, allSuccessful, executed>>
\* what the managers' own steps leave alone besides the other manager
uiVars == <<statuses, completed, errors, successCount, errorCount, allCompleted>>
teaVars == <<autoSubdirs, cloneStarted, teapc, teamsg>>
execVars == <<gpc, stdoutLines, procExited, done_closed, exec_wg, ticks>>
detVars == <<det_dir, det_result, det_again>>
invVars == <<started, invpc>>
callVars == <<auth_in, auth_out, pw_in, pw_out>>
\* what the consumers of a progress channel never change
fixedVars == <<repo_Name, config_CreateSubdirs, execVars, detVars, invVars, callVars>>
auxVars == <<fixedVars, uiVars, teaVars>>
vars == <<site, ctxCancelled, fs, cloneVars, installVars, callerpc, termRecv,
          termDropped, auxVars>>

\* github.Repository values the call sites select (Owner, Name; FullName is
\* Owner/Name).
Repository(i) ==
    [Owner |-> IF i = 2 THEN "bob" ELSE "alice",
     Name  |-> repo_Name[i],
     FullName |-> <<IF i = 2 THEN "bob" ELSE "alice", repo_Name[i]>>]

\* a selection in which every repository has its own name
DistinctNames == [i \in Repos |-> IF i = 1 THEN "app" ELSE IF i = 2 THEN "lib" ELSE "tool"]

CloneSites == {"api", "models", "ui", "tea"}
Sites == {"api", "models", "ui", "install"}

\* ---------------------------------------------------------------- helpers
\* CloneProgress zero value with Repository set (clone.go:90-94)
StartingProgress(i) ==
    [Repository |-> Repository(i).FullName, Status |-> "Starting", Progress |-> 0,
     Error |-> "", Completed |-> FALSE]

\* filepath.Join(cm.targetDir, repo.Owner)  (clone.go:102)
OwnerDir(i) == <<Repository(i).Owner>>

\* clone.go:98-114 : the destination of repo i
TargetPath(i) ==
    IF cm_createSubdirs THEN <<Repository(i).Owner, Repository(i).Name>>
    ELSE <<Repository(i).Name>>

\* (mutant) the semaphore is made as large as the batch
CloneSemaphoreCap_BatchSize(concurrent, repos) ==
    Cardinality(repos)

\* clone.go:65-69 : capacity of the semaphore of one CloneRepositories call
CloneSemaphoreCap(concurrent, repos) ==
    IF concurrent <= 0 THEN DefaultConcurrent ELSE concurrent

\* select { case ch <- ev: default: }  (clone.go:194-200, 258-261):
\* the channel after a non-blocking send
TrySend(ch, ev) == IF Len(ch) < ChanCap THEN Append(ch, ev) ELSE ch

\* cm.sendProgress(progress) as the whole effect on channel and history
CloneSend(i, ev) ==
    /\ cm_progress' = TrySend(cm_progress, ev)
    /\ termDropped' = IF ev.Completed /\ Len(cm_progress) >= ChanCap
                      THEN termDropped \cup {i} ELSE termDropped

\* the zero CloneProgressMsg: no message is on its way to Update
NoMsg ==
    [Repository |-> <<>>, Status |-> "", Progress |-> 0, Error |-> "",
     Completed |-> FALSE]

\* ------------------------------------------------------------------- Init
\* The orchestrating UI before anything has happened: empty maps, counters 0
\* (part_011 NewCloningManager, part_006:465-497 NewCloningModel)
UiIdle ==
    /\ statuses = [i \in Repos |-> ""]
    /\ completed = {}
    /\ errors = {}
    /\ successCount = 0
    /\ errorCount = 0
    /\ allCompleted = FALSE
    /\ autoSubdirs = FALSE
    /\ cloneStarted = FALSE
    /\ teapc = "off"
    /\ teamsg = NoMsg

\* the goroutines of one executeCommand call: the worker that runs
\* installForRepository, the two pipe readers and the ticker goroutine
Goroutines == {"worker", "stdout", "stderr", "ticker"}

\* no executeCommand call is looked at goroutine by goroutine
ExecIdle ==
    /\ gpc = [g \in Goroutines |-> "off"]
    /\ stdoutLines = 0
    /\ procExited = FALSE
    /\ done_closed = FALSE
    /\ exec_wg = 0
    /\ ticks = 0

\* no separate detection is run
DetectIdle ==
    /\ det_dir = SampleDirs.plain
    /\ det_result = "?"
    /\ det_again = "?"

\* no function of clone.go is called on its own
NoAuthIn ==
    [token |-> "", sshKey |-> "", SSHURL |-> "", homeDir |-> TRUE, keyFiles |-> {},
     keyLoads |-> TRUE]
NoAuth == [Called |-> FALSE, URL |-> "", Auth |-> "", Key |-> ""]
NoOutput == [phase |-> "", hasPercent |-> FALSE, before |-> <<>>]
NoWrite == [Called |-> FALSE, Sent |-> FALSE, Status |-> "", Progress |-> 0]

CallIdle ==
    /\ auth_in = NoAuthIn
    /\ auth_out = NoAuth
    /\ pw_in = NoOutput
    /\ pw_out = NoWrite

\* the bubbletea InstallationModel has started no InstallDependencies call
InvIdle ==
    /\ started = FALSE
    /\ invpc = [k \in Repos |-> "off"]

\* the concurrency the install call sites pass to install.NewManager
InstallSiteConcurrent == 3

\* install.NewManager (part_001:909-922): m.concurrent
NewManagerConcurrent(concurrent) ==
    IF concurrent <= 0 THEN DefaultConcurrent ELSE concurrent

\* the path of the i-th repository handed to InstallDependencies
InstallPath(i) == <<"clones", Repository(i).Name>>

\* filepath.Base
Base(path) == path[Len(path)]

\* part_001:967-971 : installForRepository's result at entry
NewInstallResult(i) ==
    [Repository |-> Base(InstallPath(i)), ProjectType |-> "", Success |-> FALSE,
     Commands |-> <<>>, Error |-> ""]

\* the zero InstallResult of make([]InstallResult, n)
ZeroInstallResult ==
    [Repository |-> "", ProjectType |-> "", Success |-> FALSE,
     Commands |-> <<>>, Error |-> ""]

Init ==
    /\ site \in Sites
    /\ repo_Name = DistinctNames
    /\ ctxCancelled = FALSE
    /\ cm_createSubdirs \in (IF site \in {"models", "install"} THEN {FALSE} ELSE BOOLEAN)
    /\ config_CreateSubdirs = cm_createSubdirs
    /\ UiIdle
    /\ ExecIdle
    /\ DetectIdle
    /\ InvIdle
    /\ CallIdle
    /\ fs \in (IF site = "install" THEN {{}} ELSE SUBSET {TargetPath(i) : i \in Repos})
    /\ newManagerArg \in (IF site = "install" THEN 0..MaxConcurrentArg ELSE {CallSiteConcurrent})
    /\ m_concurrent = NewManagerConcurrent(newManagerArg)
    /\ m_skipOnError \in (IF site = "install" THEN BOOLEAN ELSE {FALSE})
    /\ m_progress = <<>>
    /\ m_closed = FALSE
    /\ repositories \in (IF site = "install"
                          THEN UNION {[1..n -> DirKinds] : n \in 0..NumItems}
                          ELSE {<<>>})
    /\ results = <<>>
    /\ inst_wg = 0
    /\ inst_semaphore = 0
    /\ iw = [i \in Repos |-> "idle"]
    /\ result = [i \in Repos |-> NewInstallResult(i)]
    /\ projectType = [i \in Repos |-> NilProject]
    /\ allSuccessful = [i \in Repos |-> TRUE]
    /\ executed = [i \in Repos |-> 0]
    /\ cm_progress = <<>>
    /\ cm_closed = FALSE
    /\ cm_wg = 0
    /\ semaphore = [b \in Batches |-> 0]
    /\ semCap = [b \in Batches |-> 0]
    /\ concurrentArg = [b \in Batches |-> 0]
    /\ nCalls = 0
    /\ batchOf = [i \in Repos |-> 0]
    /\ cw = [i \in Repos |-> "idle"]
    /\ progress = [i \in Repos |-> StartingProgress(i)]
    /\ callerpc = "calling"
    /\ termRecv = [i \in Repos |-> 0]
    /\ termDropped = {}
    /\ cloneInvoked = {}
    /\ statFound = [i \in Repos |-> ""]

\* ------------------------------------------------- callers of CloneManager
\* CloneManager.CloneRepository (clone.go:59-62): wg.Add(1); go cloneWorker.
\* The goroutine is the bare worker: no semaphore and no wg.Done().
CloneRepository(i) ==
    /\ site = "api"
    /\ callerpc = "calling"
    /\ cw[i] = "idle"
    /\ cm_wg' = cm_wg + 1
    /\ cw' = [cw EXCEPT ![i] = "starting"]
    /\ UNCHANGED <<auxVars, installVars, site, ctxCancelled, fs, cm_createSubdirs, cm_progress, cm_closed,
                   semaphore, semCap, concurrentArg, nCalls, batchOf, progress,
                   cloneInvoked, statFound, callerpc, termRecv, termDropped>>

\* What the call site does after CloneRepositories returns: performCloning
\* (part_011:281) returns and leaves completion to monitorProgress; the others
\* go on (to Wait, or to further calls).
AfterCloneRepositories ==
    IF site \in {"ui", "tea"} THEN "returned" ELSE "calling"

\* CloneManager.CloneRepositories (clone.go:64-82): one goroutine per repo,
\* all launched by the loop; each first sends on the call's own semaphore.
CloneRepositories(repos, concurrent) ==
    /\ site \in CloneSites
    /\ callerpc = "calling"
    /\ nCalls < (IF site = "api" THEN MaxBatches ELSE 1)
    /\ \A i \in repos : cw[i] = "idle"
    /\ nCalls' = nCalls + 1
    /\ semCap' = [semCap EXCEPT ![nCalls + 1] = CloneSemaphoreCap(concurrent, repos)]
    /\ concurrentArg' = [concurrentArg EXCEPT ![nCalls + 1] = concurrent]
    /\ batchOf' = [i \in Repos |-> IF i \in repos THEN nCalls + 1 ELSE batchOf[i]]
    /\ cw' = [i \in Repos |-> IF i \in repos THEN "acquire" ELSE cw[i]]
    /\ cm_wg' = cm_wg + Cardinality(repos)
    /\ callerpc' = AfterCloneRepositories
    /\ UNCHANGED <<auxVars, installVars, site, ctxCancelled, fs, cm_createSubdirs, cm_progress, cm_closed,
                   semaphore, progress, cloneInvoked, statFound, termRecv, termDropped>>

\* The batch each call site hands to CloneRepositories.
CallCloneRepositories ==
    IF site = "api"
    THEN \E repos \in SUBSET Repos, c \in 0..MaxConcurrentArg :
            CloneRepositories(repos, c)
    ELSE CloneRepositories(Repos, CallSiteConcurrent)

\* CloneManager.Wait (clone.go:84-87), first half: the caller blocks in wg.Wait()
WaitCall ==
    /\ site \in {"api", "models"}
    /\ callerpc = "calling"
    /\ site = "models" => nCalls = 1
    /\ callerpc' = "waiting"
    /\ UNCHANGED <<auxVars, installVars, site, ctxCancelled, fs, cloneVars, termRecv, termDropped>>

\* CloneManager.Wait, second half: wg.Wait() returns at counter 0, then
\* close(cm.progress)
WaitReturn ==
    /\ site \in CloneSites
    /\ callerpc = "waiting"
    /\ cm_wg = 0
    /\ cm_closed' = TRUE
    /\ callerpc' = "returned"
    /\ UNCHANGED <<auxVars, installVars, site, ctxCancelled, fs, cm_createSubdirs, cm_progress, cm_wg,
                   semaphore, semCap, concurrentArg, nCalls, batchOf, cw, progress,
                   cloneInvoked, statFound, termRecv, termDropped>>

\* ------------------------------------------------------------ cloneWorker
\* clone.go:74  semaphore <- struct{}{}
Acquire(i) ==
    /\ cw[i] = "acquire"
    /\ semaphore[batchOf[i]] < semCap[batchOf[i]]
    /\ semaphore' = [semaphore EXCEPT ![batchOf[i]] = @ + 1]
    /\ cw' = [cw EXCEPT ![i] = "starting"]
    /\ UNCHANGED <<auxVars, installVars, site, ctxCancelled, fs, cm_createSubdirs, cm_progress, cm_closed,
                   cm_wg, semCap, concurrentArg, nCalls, batchOf, progress,
                   cloneInvoked, statFound, callerpc, termRecv, termDropped>>

\* clone.go:90-96
SendStarting(i) ==
    /\ cw[i] = "starting"
    /\ CloneSend(i, progress[i])
    /\ cw' = [cw EXCEPT ![i] = "path"]
    /\ UNCHANGED <<auxVars, installVars, site, ctxCancelled, fs, cm_createSubdirs, cm_closed, cm_wg,
                   semaphore, semCap, concurrentArg, nCalls, batchOf, progress,
                   cloneInvoked, statFound, callerpc, termRecv>>

\* (mutant) the MkdirAll failure returns without sending the terminal event
ResolvePath_NoTerminalEvent(i, mkdirOk) ==
    /\ cw[i] = "path"
    /\ IF cm_createSubdirs /\ ~mkdirOk
       THEN /\ progress' = [progress EXCEPT ![i] =
                   [@ EXCEPT !.Status = "Failed to create owner directory",
                             !.Error = "failed to create directory",
                             !.Completed = TRUE]]
            /\ cw' = [cw EXCEPT ![i] = "exit"]
            /\ fs' = fs
       ELSE /\ progress' = progress
            /\ cw' = [cw EXCEPT ![i] = "stat"]
            /\ fs' = IF cm_createSubdirs THEN fs \cup {OwnerDir(i)} ELSE fs
    /\ UNCHANGED <<auxVars, installVars, site, ctxCancelled, cm_createSubdirs, cm_progress,
                   cm_closed, cm_wg, semaphore, semCap, concurrentArg, nCalls, batchOf,
                   cloneInvoked, statFound, callerpc, termRecv, termDropped>>

\* clone.go:98-114 : os.MkdirAll(ownerDir) under createSubdirs; mkdirOk is
\* what the file system answers.
ResolvePath(i, mkdirOk) ==
    /\ cw[i] = "path"
    /\ IF cm_createSubdirs /\ ~mkdirOk
       THEN /\ progress' = [progress EXCEPT ![i] =
                   [@ EXCEPT !.Status = "Failed to create owner directory",
                             !.Error = "failed to create directory",
                             !.Completed = TRUE]]
            /\ cw' = [cw EXCEPT ![i] = "terminal"]
            /\ fs' = fs
       ELSE /\ progress' = progress
            /\ cw' = [cw EXCEPT ![i] = "stat"]
            /\ fs' = IF cm_createSubdirs THEN fs \cup {OwnerDir(i)} ELSE fs
    /\ UNCHANGED <<auxVars, installVars, site, ctxCancelled, cm_createSubdirs, cm_progress, cm_closed, cm_wg,
                   semaphore, semCap, concurrentArg, nCalls, batchOf,
                   cloneInvoked, statFound, callerpc, termRecv, termDropped>>

\* (mutant) the "Directory exists" branch does not return
StatTarget_FallThrough(i) ==
    /\ cw[i] = "stat"
    /\ IF TargetPath(i) \in fs
       THEN /\ progress' = [progress EXCEPT ![i] =
                   [@ EXCEPT !.Status = "Cloning", !.Progress = 100,
                             !.Error = "already exists"]]
            /\ statFound' = [statFound EXCEPT ![i] = "exists"]
            /\ cw' = [cw EXCEPT ![i] = "sendCloning"]
       ELSE /\ progress' = [progress EXCEPT ![i] =
                   [@ EXCEPT !.Status = "Cloning", !.Progress = 100]]
            /\ statFound' = [statFound EXCEPT ![i] = "absent"]
            /\ cw' = [cw EXCEPT ![i] = "sendCloning"]
    /\ UNCHANGED <<auxVars, installVars, site, ctxCancelled, fs, cm_createSubdirs, cm_progress,
                   cm_closed, cm_wg, semaphore, semCap, concurrentArg, nCalls, batchOf,
                   cloneInvoked, callerpc, termRecv, termDropped>>

\* clone.go:116-127 : the existence check and the two ways out of it
StatTarget(i) ==
    /\ cw[i] = "stat"
    /\ IF TargetPath(i) \in fs
       THEN /\ progress' = [progress EXCEPT ![i] =
                   [@ EXCEPT !.Status = "Directory exists",
                             !.Error = "already exists",
                             !.Completed = TRUE]]
            /\ statFound' = [statFound EXCEPT ![i] = "exists"]
            /\ cw' = [cw EXCEPT ![i] = "terminal"]
       ELSE /\ progress' = [progress EXCEPT ![i] =
                   [@ EXCEPT !.Status = "Cloning", !.Progress = 100]]
            /\ statFound' = [statFound EXCEPT ![i] = "absent"]
            /\ cw' = [cw EXCEPT ![i] = "sendCloning"]
    /\ UNCHANGED <<auxVars, installVars, site, ctxCancelled, fs, cm_createSubdirs, cm_progress, cm_closed,
                   cm_wg, semaphore, semCap, concurrentArg, nCalls, batchOf,
                   cloneInvoked, callerpc, termRecv, termDropped>>

\* clone.go:127
SendCloning(i) ==
    /\ cw[i] = "sendCloning"
    /\ CloneSend(i, progress[i])
    /\ cw' = [cw EXCEPT ![i] = "clone"]
    /\ UNCHANGED <<auxVars, installVars, site, ctxCancelled, fs, cm_createSubdirs, cm_closed, cm_wg,
                   semaphore, semCap, concurrentArg, nCalls, batchOf, progress,
                   cloneInvoked, statFound, callerpc, termRecv>>

\* clone.go:129-147 : git.PlainCloneContext is entered; it creates the
\* destination directory and starts to fetch.
CloneBegin(i) ==
    /\ cw[i] = "clone"
    /\ cloneInvoked' = cloneInvoked \cup {i}
    /\ fs' = fs \cup {TargetPath(i)}
    /\ cw' = [cw EXCEPT ![i] = "cloning"]
    /\ UNCHANGED <<auxVars, installVars, site, ctxCancelled, cm_createSubdirs, cm_progress, cm_closed, cm_wg,
                   semaphore, semCap, concurrentArg, nCalls, batchOf, progress,
                   statFound, callerpc, termRecv, termDropped>>

\* Progress lines git reports while the clone runs: the phase keyword found
\* in the line and the percentage parsed from the text before "%" (0 when
\* there is none or it does not parse).
ProgressLines ==
    { [phase |-> "Receiving objects", percent |-> 50] }

\* progressWriter.Write (clone.go:207-265): the CloneProgress it sends
WriteProgress(i, line) ==
    [Repository |-> Repository(i).FullName,
     Status |-> line.phase,
     Progress |-> CASE line.phase = "Counting objects" -> 200
                    [] line.phase = "Compressing objects" -> 400
                    [] line.phase = "Receiving objects" ->
                         IF line.percent > 0 THEN 400 + line.percent * 4 ELSE 600
                    [] line.phase = "Resolving deltas" ->
                         IF line.percent > 0 THEN 800 + line.percent * 2 ELSE 800,
     Error |-> "",
     Completed |-> FALSE]

\* progressWriter.Write called by the running clone (clone.go:251-262)
ProgressWrite(i, line) ==
    /\ cw[i] = "cloning"
    /\ cm_progress' = TrySend(cm_progress, WriteProgress(i, line))
    /\ cm_progress' # cm_progress
    /\ UNCHANGED <<auxVars, installVars, site, ctxCancelled, fs, cm_createSubdirs, cm_closed, cm_wg,
                   semaphore, semCap, concurrentArg, nCalls, batchOf, cw, progress,
                   cloneInvoked, statFound, callerpc, termRecv, termDropped>>

\* clone.go:147-155,159 : PlainCloneContext returns; a cancelled context makes
\* it return an error.
CloneReturn(i, ok) ==
    /\ cw[i] = "cloning"
    /\ ok => ~ctxCancelled
    /\ progress' = [progress EXCEPT ![i] =
            [@ EXCEPT !.Progress = 1000, !.Completed = TRUE,
                      !.Status = IF ok THEN "Completed" ELSE "Failed",
                      !.Error = IF ok THEN "" ELSE "failed to clone"]]
    /\ cw' = [cw EXCEPT ![i] = IF ok THEN "terminal" ELSE "cleanup"]
    /\ UNCHANGED <<auxVars, installVars, site, ctxCancelled, fs, cm_createSubdirs, cm_progress, cm_closed,
                   cm_wg, semaphore, semCap, concurrentArg, nCalls, batchOf,
                   cloneInvoked, statFound, callerpc, termRecv, termDropped>>

\* clone.go:156-157 : os.RemoveAll(targetPath)
CleanupPartial(i) ==
    /\ cw[i] = "cleanup"
    /\ fs' = fs \ {TargetPath(i)}
    /\ cw' = [cw EXCEPT ![i] = "terminal"]
    /\ UNCHANGED <<auxVars, installVars, site, ctxCancelled, cm_createSubdirs, cm_progress, cm_closed, cm_wg,
                   semaphore, semCap, concurrentArg, nCalls, batchOf, progress,
                   cloneInvoked, statFound, callerpc, termRecv, termDropped>>

\* clone.go:107, 121, 162 : the completed=true event
SendTerminal(i) ==
    /\ cw[i] = "terminal"
    /\ CloneSend(i, progress[i])
    /\ cw' = [cw EXCEPT ![i] = "exit"]
    /\ UNCHANGED <<auxVars, installVars, site, ctxCancelled, fs, cm_createSubdirs, cm_closed, cm_wg,
                   semaphore, semCap, concurrentArg, nCalls, batchOf, progress,
                   cloneInvoked, statFound, callerpc, termRecv>>

\* (mutant) the token is given back at the end of the worker's success path
\* only, not by a deferred function
WorkerExit_KeepTokenOnFailure(i) ==
    /\ cw[i] = "exit"
    /\ cw' = [cw EXCEPT ![i] = "done"]
    /\ IF batchOf[i] > 0
       THEN /\ semaphore' = [semaphore EXCEPT ![batchOf[i]] =
                                IF progress[i].Error = "" THEN @ - 1 ELSE @]
            /\ cm_wg' = cm_wg - 1
       ELSE UNCHANGED <<semaphore, cm_wg>>
    /\ UNCHANGED <<auxVars, installVars, site, ctxCancelled, fs, cm_createSubdirs, cm_progress,
                   cm_closed, semCap, concurrentArg, nCalls, batchOf, progress,
                   cloneInvoked, statFound, callerpc, termRecv, termDropped>>

\* The goroutine ends.  Under CloneRepositories the deferred function runs
\* (clone.go:75-78: <-semaphore; cm.wg.Done()); under CloneRepository nothing
\* follows cloneWorker (clone.go:61).
WorkerExit(i) ==
    /\ cw[i] = "exit"
    /\ cw' = [cw EXCEPT ![i] = "done"]
    /\ IF batchOf[i] > 0
       THEN /\ semaphore' = [semaphore EXCEPT ![batchOf[i]] = @ - 1]
            /\ cm_wg' = cm_wg - 1
       ELSE UNCHANGED <<semaphore, cm_wg>>
    /\ UNCHANGED <<auxVars, installVars, site, ctxCancelled, fs, cm_createSubdirs, cm_progress, cm_closed,
                   semCap, concurrentArg, nCalls, batchOf, progress,
                   cloneInvoked, statFound, callerpc, termRecv, termDropped>>

\* ------------------------------------------------- reader and cancellation
\* The repository a progress event names (events are keyed by FullName)
RepoOf(fullName) == CHOOSE i \in Repos : Repository(i).FullName = fullName

\* One receive from cm.progress by the reader (part_011:288, part_006:847)
ReceiveClone ==
    /\ site \in CloneSites
    /\ Len(cm_progress) > 0
    /\ cm_progress' = Tail(cm_progress)
    /\ termRecv' = IF Head(cm_progress).Completed
                   THEN [termRecv EXCEPT ![RepoOf(Head(cm_progress).Repository)] = @ + 1]
                   ELSE termRecv
    /\ UNCHANGED <<auxVars, installVars, site, ctxCancelled, fs, cm_createSubdirs, cm_closed, cm_wg,
                   semaphore, semCap, concurrentArg, nCalls, batchOf, cw, progress,
                   cloneInvoked, statFound, callerpc, termDropped>>

\* The user cancels: the batch's shared context is cancelled (m.cancel())
Cancel ==
    /\ ~ctxCancelled
    /\ ctxCancelled' = TRUE
    /\ UNCHANGED <<auxVars, installVars, site, fs, cloneVars, callerpc, termRecv, termDropped>>

\* ======================================================= install.Manager
Paths == 1..Len(repositories)

\* Manager.sendProgress (part_001:1191-1202): the send goes through when the
\* buffer has room; on a buffer still full when the 100ms timer fires and the
\* retry runs, the event is dropped.  (A sender that is still waiting is a
\* sender that has not taken this step yet.)
InstallSend(i, ev) ==
    /\ m_progress' = TrySend(m_progress, ev)
    /\ termDropped' = IF ev.Completed /\ Len(m_progress) >= ChanCap
                      THEN termDropped \cup {i} ELSE termDropped

\* an InstallProgress value
InstallProgress(i, ptName, command, status, isCompleted) ==
    [Repository |-> Base(InstallPath(i)), ProjectType |-> ptName, Command |-> command,
     Status |-> status, Error |-> "", Completed |-> isCompleted]

\* Manager.InstallDependencies (part_001:932-952): the empty case closes the
\* channel and returns; otherwise results is made and one goroutine per path
\* is started, and the caller blocks in wg.Wait().
InstallDependencies ==
    /\ site = "install"
    /\ callerpc = "calling"
    /\ IF Len(repositories) = 0
       THEN /\ m_closed' = TRUE
            /\ callerpc' = "returned"
            /\ UNCHANGED <<results, inst_wg, iw>>
       ELSE /\ results' = [i \in Paths |-> ZeroInstallResult]
            /\ inst_wg' = Len(repositories)
            /\ iw' = [i \in Repos |-> IF i \in Paths THEN "acquire" ELSE iw[i]]
            /\ callerpc' = "waiting"
            /\ UNCHANGED m_closed
    /\ UNCHANGED <<auxVars, site, ctxCancelled, fs, cloneVars, newManagerArg, m_concurrent,
                   m_skipOnError, m_progress, repositories, inst_semaphore, result,
                   projectType, allSuccessful, executed, termRecv, termDropped>>

\* Manager.InstallDependencies (part_001:954-957): wg.Wait() returns, the
\* channel is closed and results is returned.
InstallReturn ==
    /\ site = "install"
    /\ callerpc = "waiting"
    /\ inst_wg = 0
    /\ m_closed' = TRUE
    /\ callerpc' = "returned"
    /\ UNCHANGED <<auxVars, site, ctxCancelled, fs, cloneVars, newManagerArg, m_concurrent,
                   m_skipOnError, m_progress, repositories, results, inst_wg,
                   inst_semaphore, iw, result, projectType, allSuccessful, executed,
                   termRecv, termDropped>>

\* part_001:947  semaphore <- struct{}{}
InstAcquire(i) ==
    /\ iw[i] = "acquire"
    /\ inst_semaphore < m_concurrent
    /\ inst_semaphore' = inst_semaphore + 1
    /\ iw' = [iw EXCEPT ![i] = "sendDetecting"]
    /\ UNCHANGED <<auxVars, site, ctxCancelled, fs, cloneVars, newManagerArg, m_concurrent,
                   m_skipOnError, m_progress, m_closed, repositories, results, inst_wg,
                   result, projectType, allSuccessful, executed, callerpc,
                   termRecv, termDropped>>

\* part_001:965-976
InstSendDetecting(i) ==
    /\ iw[i] = "sendDetecting"
    /\ InstallSend(i, InstallProgress(i, "", "", "Detecting project type", FALSE))
    /\ iw' = [iw EXCEPT ![i] = "detect"]
    /\ UNCHANGED <<auxVars, site, ctxCancelled, fs, cloneVars, newManagerArg, m_concurrent,
                   m_skipOnError, m_closed, repositories, results, inst_wg,
                   inst_semaphore, result, projectType, allSuccessful, executed,
                   callerpc, termRecv>>

\* (mutant) the projectType == nil check is missing
InstDetect_NoNilCheck(i) ==
    /\ iw[i] = "detect"
    /\ LET pt == DetectPrimaryProject(SampleDirs[repositories[i]])
       IN /\ projectType' = [projectType EXCEPT ![i] = pt]
          /\ result' = [result EXCEPT ![i].ProjectType = pt.Name]
          /\ iw' = [iw EXCEPT ![i] = "sendInstalling"]
    /\ UNCHANGED <<auxVars, site, ctxCancelled, fs, cloneVars, newManagerArg, m_concurrent,
                   m_skipOnError, m_progress, m_closed, repositories, results, inst_wg,
                   inst_semaphore, allSuccessful, executed, callerpc,
                   termRecv, termDropped>>

\* part_001:978-1008 : detection and the no-match exit (DetectPrimaryProject
\* returns no error, so the branch at 981-993 is never taken)
InstDetect(i) ==
    /\ iw[i] = "detect"
    /\ LET pt == DetectPrimaryProject(SampleDirs[repositories[i]])
       IN /\ projectType' = [projectType EXCEPT ![i] = pt]
          /\ IF pt = NilProject
             THEN /\ result' = [result EXCEPT ![i].Error =
                                    "no supported project type detected"]
                  /\ iw' = [iw EXCEPT ![i] = "terminal"]
             ELSE /\ result' = [result EXCEPT ![i].ProjectType = pt.Name]
                  /\ iw' = [iw EXCEPT ![i] = "sendInstalling"]
    /\ UNCHANGED <<auxVars, site, ctxCancelled, fs, cloneVars, newManagerArg, m_concurrent,
                   m_skipOnError, m_progress, m_closed, repositories, results, inst_wg,
                   inst_semaphore, allSuccessful, executed, callerpc,
                   termRecv, termDropped>>

\* part_001:1010-1017
InstSendInstalling(i) ==
    /\ iw[i] = "sendInstalling"
    /\ InstallSend(i, InstallProgress(i, projectType[i].Name, "",
                                      "Installing dependencies", FALSE))
    /\ allSuccessful' = [allSuccessful EXCEPT ![i] = TRUE]
    /\ iw' = [iw EXCEPT ![i] = "loop"]
    /\ UNCHANGED <<auxVars, site, ctxCancelled, fs, cloneVars, newManagerArg, m_concurrent,
                   m_skipOnError, m_closed, repositories, results, inst_wg,
                   inst_semaphore, result, projectType, executed, callerpc, termRecv>>

\* part_001:1034 : result.Success once the command loop is left
Finished(res, allOk) ==
    [res EXCEPT !.Success = allOk /\ Len(res.Commands) > 0]

\* part_001:1018-1021 : the head of the command loop.  Every iteration
\* appends one CommandResult, so the next command is the one after those run.
InstLoop(i) ==
    /\ iw[i] = "loop"
    /\ IF Len(result[i].Commands) >= Len(projectType[i].Commands) \/ ctxCancelled
       THEN /\ result' = [result EXCEPT ![i] = Finished(@, allSuccessful[i])]
            /\ iw' = [iw EXCEPT ![i] = "terminal"]
       ELSE /\ result' = result
            /\ iw' = [iw EXCEPT ![i] = "sendRunning"]
    /\ UNCHANGED <<auxVars, site, ctxCancelled, fs, cloneVars, newManagerArg, m_concurrent,
                   m_skipOnError, m_progress, m_closed, repositories, results, inst_wg,
                   inst_semaphore, projectType, allSuccessful, executed, callerpc,
                   termRecv, termDropped>>

\* the command the loop is at
CurrentCommand(i) == projectType[i].Commands[Len(result[i].Commands) + 1]

\* executeCommand, part_001:1055-1064 : the "Running: ..." event
InstSendRunning(i) ==
    /\ iw[i] = "sendRunning"
    /\ InstallSend(i, InstallProgress(i, projectType[i].Name, CurrentCommand(i).Command,
                                      "Running: cmd", FALSE))
    /\ iw' = [iw EXCEPT ![i] = "start"]
    /\ UNCHANGED <<auxVars, site, ctxCancelled, fs, cloneVars, newManagerArg, m_concurrent,
                   m_skipOnError, m_closed, repositories, results, inst_wg,
                   inst_semaphore, result, projectType, allSuccessful, executed,
                   callerpc, termRecv>>

\* executeCommand, part_001:1108-1137 : the stdout reader reports a line
InstOutputLine(i) ==
    /\ iw[i] = "exec"
    /\ Len(m_progress) < ChanCap
    /\ InstallSend(i, InstallProgress(i, projectType[i].Name, CurrentCommand(i).Command,
                                      "Installing packages", FALSE))
    /\ UNCHANGED <<auxVars, site, ctxCancelled, fs, cloneVars, newManagerArg, m_concurrent,
                   m_skipOnError, m_closed, repositories, results, inst_wg,
                   inst_semaphore, iw, result, projectType, allSuccessful, executed,
                   callerpc, termRecv>>

\* executeCommand, part_001:1148-1167 : the 2-second ticker reports "Running..."
InstHeartbeat(i) ==
    /\ iw[i] = "exec"
    /\ Len(m_progress) < ChanCap
    /\ InstallSend(i, InstallProgress(i, projectType[i].Name, CurrentCommand(i).Command,
                                      "Running...", FALSE))
    /\ UNCHANGED <<auxVars, site, ctxCancelled, fs, cloneVars, newManagerArg, m_concurrent,
                   m_skipOnError, m_closed, repositories, results, inst_wg,
                   inst_semaphore, iw, result, projectType, allSuccessful, executed,
                   callerpc, termRecv>>

\* executeCommand, part_001:1170-1188 : the CommandResult of a subprocess that
\* exited with exitCode
CommandResult(cmd, exitCode) ==
    [Command |-> cmd.Command, Success |-> exitCode = 0, ExitCode |-> exitCode,
     Error |-> IF exitCode = 0 THEN "" ELSE "exit status"]

\* executeCommand, part_001:1095-1100 : the CommandResult when execCmd.Start()
\* fails
StartFailedResult(cmd) ==
    [Command |-> cmd.Command, Success |-> FALSE, ExitCode |-> 0,
     Error |-> "failed to start command"]

\* (mutant) a failed required command never ends the loop
AbortsSequence_Never(cmd, skipOnError) == FALSE

\* part_001:1028 : the loop is left after this failed command
AbortsSequence(cmd, skipOnError) == cmd.Required /\ ~skipOnError

\* part_001:1024-1032 : the rest of the loop body once executeCommand has
\* returned cmdResult for the current command
LoopBody(i, cmdResult) ==
    LET cmd == CurrentCommand(i)
        appended == [result[i] EXCEPT !.Commands = Append(@, cmdResult)]
        allOk == allSuccessful[i] /\ cmdResult.Success
    IN /\ allSuccessful' = [allSuccessful EXCEPT ![i] = allOk]
       /\ IF ~cmdResult.Success /\ AbortsSequence(cmd, m_skipOnError)
          THEN /\ result' = [result EXCEPT ![i] = Finished(appended, allOk)]
               /\ iw' = [iw EXCEPT ![i] = "terminal"]
          ELSE /\ result' = [result EXCEPT ![i] = appended]
               /\ iw' = [iw EXCEPT ![i] = "loop"]

\* executeCommand, part_001:1066-1100 : exec.CommandContext and
\* execCmd.Start().  Start returns the context's error without starting a
\* subprocess when the context is already done; executeCommand then returns
\* at once.  Otherwise the subprocess runs.
InstStart(i) ==
    /\ iw[i] = "start"
    /\ IF ctxCancelled
       THEN /\ LoopBody(i, StartFailedResult(CurrentCommand(i)))
            /\ executed' = executed
       ELSE /\ executed' = [executed EXCEPT ![i] = @ + 1]
            /\ iw' = [iw EXCEPT ![i] = "exec"]
            /\ UNCHANGED <<result, allSuccessful>>
    /\ UNCHANGED <<auxVars, site, ctxCancelled, fs, cloneVars, newManagerArg, m_concurrent,
                   m_skipOnError, m_progress, m_closed, repositories, results, inst_wg,
                   inst_semaphore, projectType, callerpc, termRecv, termDropped>>

\* part_001:1023-1032 : executeCommand returns and the loop body finishes.  A
\* cancelled context kills the subprocess, which then fails.
InstExecReturn(i, exitCode) ==
    /\ iw[i] = "exec"
    /\ exitCode = 0 => ~ctxCancelled
    /\ LoopBody(i, CommandResult(CurrentCommand(i), exitCode))
    /\ UNCHANGED <<auxVars, site, ctxCancelled, fs, cloneVars, newManagerArg, m_concurrent,
                   m_skipOnError, m_progress, m_closed, repositories, results, inst_wg,
                   inst_semaphore, projectType, executed, callerpc,
                   termRecv, termDropped>>

\* part_001:999-1003 and 1037-1049 : the completed=true event of the item
TerminalInstallProgress(i) ==
    IF projectType[i] = NilProject
    THEN InstallProgress(i, "", "", "Skipped - unsupported project type", TRUE)
    ELSE [InstallProgress(i, projectType[i].Name, "",
                          IF result[i].Success THEN "Completed" ELSE "Failed", TRUE)
            EXCEPT !.Error = result[i].Error]

InstSendTerminal(i) ==
    /\ iw[i] = "terminal"
    /\ InstallSend(i, TerminalInstallProgress(i))
    /\ iw' = [iw EXCEPT ![i] = "exit"]
    /\ UNCHANGED <<auxVars, site, ctxCancelled, fs, cloneVars, newManagerArg, m_concurrent,
                   m_skipOnError, m_closed, repositories, results, inst_wg,
                   inst_semaphore, result, projectType, allSuccessful, executed,
                   callerpc, termRecv>>

\* (mutant) the goroutine closes over the loop variable: every worker stores
\* at the last index
InstWorkerExit_SharedIndex(i) ==
    /\ iw[i] = "exit"
    /\ results' = [results EXCEPT ![Len(repositories)] = result[i]]
    /\ inst_semaphore' = inst_semaphore - 1
    /\ inst_wg' = inst_wg - 1
    /\ iw' = [iw EXCEPT ![i] = "done"]
    /\ UNCHANGED <<auxVars, site, ctxCancelled, fs, cloneVars, newManagerArg, m_concurrent,
                   m_skipOnError, m_progress, m_closed, repositories, result,
                   projectType, allSuccessful, executed, callerpc, termRecv, termDropped>>

\* (mutant) the token is given back only after a successful install
InstWorkerExit_ReleaseOnSuccess(i) ==
    /\ iw[i] = "exit"
    /\ results' = [results EXCEPT ![i] = result[i]]
    /\ inst_semaphore' = IF result[i].Success THEN inst_semaphore - 1 ELSE inst_semaphore
    /\ inst_wg' = inst_wg - 1
    /\ iw' = [iw EXCEPT ![i] = "done"]
    /\ UNCHANGED <<auxVars, site, ctxCancelled, fs, cloneVars, newManagerArg, m_concurrent,
                   m_skipOnError, m_progress, m_closed, repositories, result,
                   projectType, allSuccessful, executed, callerpc, termRecv, termDropped>>

\* part_001:944-951 : installForRepository has returned: its result is stored
\* at the goroutine's index, then the deferred <-semaphore and wg.Done() run
InstWorkerExit(i) ==
    /\ iw[i] = "exit"
    /\ results' = [results EXCEPT ![i] = result[i]]
    /\ inst_semaphore' = inst_semaphore - 1
    /\ inst_wg' = inst_wg - 1
    /\ iw' = [iw EXCEPT ![i] = "done"]
    /\ UNCHANGED <<auxVars, site, ctxCancelled, fs, cloneVars, newManagerArg, m_concurrent,
                   m_skipOnError, m_progress, m_closed, repositories, result,
                   projectType, allSuccessful, executed, callerpc, termRecv, termDropped>>

\* the path an InstallProgress event names (events carry filepath.Base(path))
PathOf(repoName) == CHOOSE i \in Repos : Base(InstallPath(i)) = repoName

\* One receive from m.progress by the reader (installation.go:201, search.go:995)
ReceiveInstall ==
    /\ site = "install"
    /\ Len(m_progress) > 0
    /\ m_progress' = Tail(m_progress)
    /\ termRecv' = IF Head(m_progress).Completed
                   THEN [termRecv EXCEPT ![PathOf(Head(m_progress).Repository)] = @ + 1]
                   ELSE termRecv
    /\ UNCHANGED <<auxVars, site, ctxCancelled, fs, cloneVars, newManagerArg, m_concurrent,
                   m_skipOnError, m_closed, repositories, results, inst_wg,
                   inst_semaphore, iw, result, projectType, allSuccessful, executed,
                   callerpc, termDropped>>

InstallWorkerStep(i) ==
    \/ InstAcquire(i)
    \/ InstSendDetecting(i)
    \/ InstDetect(i)
    \/ InstSendInstalling(i)
    \/ InstLoop(i)
    \/ InstSendRunning(i)
    \/ InstStart(i)
    \/ InstOutputLine(i)
    \/ InstHeartbeat(i)
    \/ \E exitCode \in {0, 1} : InstExecReturn(i, exitCode)
    \/ InstSendTerminal(i)
    \/ InstWorkerExit(i)

InstallCallerStep ==
    \/ InstallDependencies
    \/ InstallReturn

CloneWorkerStep(i) ==
    \/ Acquire(i)
    \/ SendStarting(i)
    \/ \E mkdirOk \in BOOLEAN : ResolvePath(i, mkdirOk)
    \/ StatTarget(i)
    \/ SendCloning(i)
    \/ CloneBegin(i)
    \/ \E line \in ProgressLines : ProgressWrite(i, line)
    \/ \E ok \in BOOLEAN : CloneReturn(i, ok)
    \/ CleanupPartial(i)
    \/ SendTerminal(i)
    \/ WorkerExit(i)

CloneCallerStep ==
    \/ \E i \in Repos : CloneRepository(i)
    \/ CallCloneRepositories
    \/ WaitCall
    \/ WaitReturn

Next ==
    \/ CloneCallerStep
    \/ \E i \in Repos : CloneWorkerStep(i)
    \/ ReceiveClone
    \/ InstallCallerStep
    \/ \E i \in Repos : InstallWorkerStep(i)
    \/ ReceiveInstall
    \/ Cancel

Spec == Init /\ [][Next]_vars

\* Fairness the Go scheduler and the claims' assumptions give: every started
\* goroutine keeps running, every clone and subprocess call returns, and a
\* blocked wg.Wait() returns once the counter is 0.  Nothing is assumed about
\* the reader of the channel, which may stop reading at any time.
CloneWorkerProgress(i) ==
    \/ Acquire(i)
    \/ SendStarting(i)
    \/ \E mkdirOk \in BOOLEAN : ResolvePath(i, mkdirOk)
    \/ StatTarget(i)
    \/ SendCloning(i)
    \/ CloneBegin(i)
    \/ \E ok \in BOOLEAN : CloneReturn(i, ok)
    \/ CleanupPartial(i)
    \/ SendTerminal(i)
    \/ WorkerExit(i)

InstallWorkerProgress(i) ==
    \/ InstAcquire(i)
    \/ InstSendDetecting(i)
    \/ InstDetect(i)
    \/ InstSendInstalling(i)
    \/ InstLoop(i)
    \/ InstSendRunning(i)
    \/ InstStart(i)
    \/ \E exitCode \in {0, 1} : InstExecReturn(i, exitCode)
    \/ InstSendTerminal(i)
    \/ InstWorkerExit(i)

FairSpec ==
    /\ Spec
    /\ \A i \in Repos : WF_vars(CloneWorkerProgress(i))
    /\ \A i \in Repos : WF_vars(InstallWorkerProgress(i))
    /\ WF_vars(WaitReturn)
    /\ WF_vars(InstallReturn)

\* ================================================================ claims
\* positions at which a clone worker started by CloneRepositories holds a
\* token of its call's semaphore (after clone.go:74, before clone.go:76)
CloneHolding ==
    {"starting", "path", "stat", "sendCloning", "clone", "cloning", "cleanup",
     "terminal", "exit"}

\* positions at which an install worker holds a token (after part_001:947)
InstallHolding ==
    {"sendDetecting", "detect", "sendInstalling", "loop", "sendRunning", "start", "exec",
     "terminal", "exit"}

CloneHolders(b) == {i \in Repos : batchOf[i] = b /\ cw[i] \in CloneHolding}
InstallHolders == {i \in Repos : iw[i] \in InstallHolding}

\* the limit L a caller's concurrency argument stands for
LimitOf(c) == IF c <= 0 THEN 3 ELSE c

\* C1: in every batch started by CloneRepositories or InstallDependencies
\* with concurrency limit L (3 when the caller gives a value <= 0), at most L
\* workers are between acquiring and releasing a semaphore token.
C1_ConcurrencyBound ==
    /\ \A b \in Batches : Cardinality(CloneHolders(b)) <= LimitOf(concurrentArg[b])
    /\ Cardinality(InstallHolders) <= LimitOf(newManagerArg)

\* C1 witness: a clone batch larger than its limit, with the limit reached
\* and another item of the batch waiting for a token.
C1_Witness ==
    \E b \in Batches :
        /\ Cardinality({i \in Repos : batchOf[i] = b}) > LimitOf(concurrentArg[b])
        /\ Cardinality(CloneHolders(b)) = LimitOf(concurrentArg[b])
        /\ \E i \in Repos : batchOf[i] = b /\ cw[i] = "acquire"

\* ---- shared vocabulary of the claims below
Started(i) == cw[i] # "idle" \/ iw[i] # "idle"
WorkerDone(i) == cw[i] = "done" \/ iw[i] = "done"
\* the worker has executed the send of its completed=true event
TerminalSent(i) == cw[i] \in {"exit", "done"} \/ iw[i] \in {"exit", "done"}
AllStartedDone == \A i \in Repos : Started(i) => WorkerDone(i)
ChannelClosed == IF site = "install" THEN m_closed ELSE cm_closed
\* completed=true events of item i waiting in the buffer
TerminalBuffered(i) ==
    IF site = "install"
    THEN Cardinality({k \in 1..Len(m_progress) :
            m_progress[k].Completed /\ PathOf(m_progress[k].Repository) = i})
    ELSE Cardinality({k \in 1..Len(cm_progress) :
            cm_progress[k].Completed /\ RepoOf(cm_progress[k].Repository) = i})
\* the batch has finished and the reader has drained the channel
BatchDrained ==
    /\ \E i \in Repos : Started(i)
    /\ AllStartedDone
    /\ cm_progress = <<>> /\ m_progress = <<>>

\* C2 (as claimed): once a batch has finished, exactly one completed=true
\* event per item has been delivered to the reader, whatever the reader's speed.
C2_OneTerminalEventPerItem ==
    BatchDrained => \A i \in Repos : Started(i) => termRecv[i] = 1

\* C2 (amended): no item ever has more than one completed=true event
\* delivered, and once the batch has finished and the channel is drained,
\* exactly one has been delivered for each item whose terminal send found room
\* in the buffer and none for an item whose terminal send found it full.
C2_TerminalDeliveredUnlessDropped ==
    /\ \A i \in Repos : termRecv[i] + TerminalBuffered(i) <= 1
    /\ BatchDrained =>
         \A i \in Repos : Started(i) => termRecv[i] = (IF i \in termDropped THEN 0 ELSE 1)

\* C2 witness: a drained batch in which one item's terminal event arrived and
\* another's was dropped.
C2_Witness ==
    /\ BatchDrained
    /\ \E i, j \in Repos : termRecv[i] = 1 /\ j \in termDropped /\ termRecv[j] = 0

\* C3 (as claimed): once the call that started the batch has returned and
\* every item has produced its completed=true event, the progress channel is
\* closed, at every call site.
C3_ClosedOnceAllTerminal ==
    (callerpc = "returned" /\ AllStartedDone) => ChannelClosed

\* an item's work has failed
ItemFailed(i) ==
    \/ progress[i].Error # ""
    \/ result[i].Error # ""
    \/ \E k \in 1..Len(result[i].Commands) : ~result[i].Commands[k].Success

\* C4: when one item's work fails, every other started item of the batch
\* still gets a slot, runs and sends its own completed=true event.  Failed,
\* started and sent are stable (each item is worked on once), so "a failure
\* of i leads to the terminal event of every started j" is the statement
\* that from some point on no started sibling of a failed item is still
\* short of its terminal event.
C4_FailureIsolation ==
    <>[](\A i, j \in Repos :
            (i # j /\ ItemFailed(i) /\ Started(j)) => TerminalSent(j))

\* C4 witness: in a batch with one slot, an item failed and another item,
\* which needed that slot, completed its clone afterwards.
C4_Witness ==
    \E i, j \in Repos :
        /\ i # j /\ batchOf[i] > 0 /\ batchOf[i] = batchOf[j]
        /\ semCap[batchOf[i]] = 1
        /\ ItemFailed(i) /\ cw[i] = "done"
        /\ cw[j] = "done" /\ progress[j].Status = "Completed"

\* C5: the tokens in a semaphore are exactly those of the workers between
\* their acquire and their release: every worker that acquired one gives it
\* back once, on every exit path, and none is held after the batch.
C5_TokensReleased ==
    /\ \A b \in Batches : semaphore[b] = Cardinality(CloneHolders(b))
    /\ inst_semaphore = Cardinality(InstallHolders)

\* C5 witness: after cancellation, a batch whose workers all left, one of
\* them through the clone-error path, with no token left.
C5_Witness ==
    /\ ctxCancelled
    /\ AllStartedDone
    /\ \E i \in Repos :
          /\ batchOf[i] > 0 /\ cw[i] = "done" /\ progress[i].Error = "failed to clone"
          /\ semaphore[batchOf[i]] = 0

\* every worker was started by CloneRepositories (none by CloneRepository)
NoSingleClone == \A i \in Repos : cw[i] # "idle" => batchOf[i] > 0

\* the caller is blocked in wg.Wait() of InstallDependencies or of
\* CloneManager.Wait
CallerWaiting == callerpc = "waiting"

\* C6: with a reader that is slow or stops reading (no fairness on the
\* reader), and the buffer full, every send still returns, so every started
\* worker finishes its item and InstallDependencies / Wait return: from some
\* point on no started worker is unfinished and no caller is still waiting.
C6_NoStallWithoutReader ==
    <>[](AllStartedDone /\ ~CallerWaiting)

\* What the sends do guarantee: every started worker finishes, and
\* InstallDependencies and Wait after CloneRepositories batches return.
NoStallAfterBatches ==
    <>[](AllStartedDone /\ (CallerWaiting => (site = "api" /\ ~NoSingleClone)))

\* C6 witness: nothing was ever read, the buffer is full, a terminal event
\* was dropped, and still every worker is done and the caller has returned.
C6_Witness ==
    /\ \A i \in Repos : termRecv[i] = 0
    /\ Len(cm_progress) + Len(m_progress) = ChanCap
    /\ termDropped # {}
    /\ \E i \in Repos : Started(i)
    /\ AllStartedDone
    /\ callerpc = "returned"
    /\ ChannelClosed

\* C7 (as claimed): Wait() returns once every started worker has sent its
\* terminal event and ended, after any sequence of CloneRepository and
\* CloneRepositories calls; the channel is not closed before that.
C7_WaitJoinsAllWorkers ==
    /\ (site # "install" /\ callerpc = "waiting" /\ AllStartedDone) => cm_wg = 0
    /\ cm_closed => AllStartedDone

\* C8: InstallDependencies returns only after every worker has finished, with
\* one result per input path, result i being the one installForRepository
\* produced for path i (stored once, when that worker ends); with no paths it
\* returns no results and the channel is closed.
C8_ResultsAligned ==
    /\ \A i \in DOMAIN results :
          results[i] = (IF iw[i] = "done" THEN result[i] ELSE ZeroInstallResult)
    /\ (site = "install" /\ callerpc = "returned") =>
          /\ m_closed
          /\ Len(results) = Len(repositories)
          /\ \A i \in Paths :
                /\ iw[i] = "done"
                /\ results[i].Repository = Base(InstallPath(i))
                /\ results[i].ProjectType =
                      DetectPrimaryProject(SampleDirs[repositories[i]]).Name

\* C8 witness: InstallDependencies returned the results of two different
\* projects.
C8_Witness ==
    /\ site = "install" /\ callerpc = "returned" /\ Len(results) = 2
    /\ results[1].ProjectType = "Go" /\ results[2].ProjectType = "Rust"

\* C9: a clone worker whose existence check found the destination emits a
\* completed=true event carrying the "already exists" error and never calls
\* the clone operation for that item.
C9_ExistingDestination ==
    \A i \in Repos : statFound[i] = "exists" =>
        /\ i \notin cloneInvoked
        /\ cw[i] \in {"terminal", "exit", "done"}
        /\ progress[i].Completed /\ progress[i].Error = "already exists"
        /\ \A k \in 1..Len(cm_progress) :
              (cm_progress[k].Repository = Repository(i).FullName
                 /\ cm_progress[k].Completed)
              => cm_progress[k].Error = "already exists"
        /\ TerminalSent(i) =>
              termRecv[i] + TerminalBuffered(i) + (IF i \in termDropped THEN 1 ELSE 0) = 1

\* C9 witness: the terminal "already exists" event of such an item is in the
\* channel.
C9_Witness ==
    \E i \in Repos :
        /\ statFound[i] = "exists" /\ cw[i] = "done"
        /\ Len(cm_progress) > 0
        /\ Head(cm_progress).Repository = Repository(i).FullName
        /\ Head(cm_progress).Error = "already exists"

\* no entry of either catalog matches the directory
NoDescriptorMatches(d) ==
    /\ \A k \in 1..Len(JSFrameworkDetectors) : ~matchesJSFramework(d, JSFrameworkDetectors[k])
    /\ \A k \in 1..Len(SupportedProjects) : ~matchesProject(d, SupportedProjects[k])

\* C10: an install item no catalog descriptor matches gets the result
\* success=false, error "no supported project type detected", no sub-step
\* results, and no command is run for it.
C10_NoProjectType ==
    \A i \in Paths :
        (NoDescriptorMatches(SampleDirs[repositories[i]])
           /\ iw[i] \in {"terminal", "exit", "done"}) =>
        /\ ~result[i].Success
        /\ result[i].Error = "no supported project type detected"
        /\ result[i].Commands = <<>>
        /\ executed[i] = 0
        /\ iw[i] = "done" => results[i] = result[i]

\* C10 witness: InstallDependencies returned such a result.
C10_Witness ==
    \E i \in Paths :
        /\ NoDescriptorMatches(SampleDirs[repositories[i]])
        /\ callerpc = "returned"
        /\ results[i].Error = "no supported project type detected"

\* positions of an install worker inside the command loop
InLoop == {"loop", "sendRunning", "start", "exec"}
\* positions of an install worker after installForRepository's last
\* assignment to its result
InstallFinished == {"terminal", "exit", "done"}
\* the k-th recorded sub-step of item i is a failure of a required command
RequiredFailedAt(i, k) ==
    /\ ~result[i].Commands[k].Success
    /\ projectType[i].Commands[k].Required

\* C11: the sub-step results of an install item are those of the detected
\* project type's commands in declared order, a command being started only
\* when all commands before it have their result; with skip-on-error false a
\* failed required command is the last one recorded: the worker has left the
\* loop, the count is that command's position, and success is false.
C11_CommandOrder ==
    \A i \in Repos :
        /\ Len(result[i].Commands) <= Len(projectType[i].Commands)
        /\ \A k \in 1..Len(result[i].Commands) :
              result[i].Commands[k].Command = projectType[i].Commands[k].Command
        /\ executed[i] <= Len(result[i].Commands) + (IF iw[i] = "exec" THEN 1 ELSE 0)
        /\ ~m_skipOnError =>
              \A k \in 1..Len(result[i].Commands) :
                  RequiredFailedAt(i, k) =>
                      /\ k = Len(result[i].Commands)
                      /\ iw[i] \notin InLoop
                      /\ ~result[i].Success

\* C11 witness: a Go project (two declared commands, the first required) with
\* skip-on-error false whose first command ran and failed: one sub-step.
C11_Witness ==
    \E i \in Repos :
        /\ ~m_skipOnError /\ iw[i] = "done"
        /\ Len(projectType[i].Commands) = 2 /\ projectType[i].Commands[1].Required
        /\ executed[i] = 1
        /\ Len(result[i].Commands) = 1 /\ ~result[i].Commands[1].Success
        /\ ~result[i].Success

\* C12 (as claimed): a finished item's success is true exactly when at least
\* one command was attempted and no required command failed.
C12_SuccessIffNoRequiredFailure ==
    \A i \in Repos : iw[i] \in InstallFinished =>
        (result[i].Success <=>
            /\ Len(result[i].Commands) > 0
            /\ \A k \in 1..Len(result[i].Commands) : ~RequiredFailedAt(i, k))

\* C13 (as claimed): once the context is cancelled no worker launches new
\* work: no clone operation is started and no subprocess is started, whether
\* the worker was in flight or still waiting for a slot at the cancellation.
C13_NoNewWorkAfterCancel ==
    [][ctxCancelled => (cloneInvoked' = cloneInvoked /\ executed' = executed)]_vars

\* The install half of C13: a subprocess is only ever started under a context
\* that is not cancelled.
NoCommandStartedAfterCancel ==
    [][ctxCancelled => executed' = executed]_vars

\* =========================================== the call sites of a clone batch
\* ui.CloningManager (part_011) and the bubbletea CloningModel (part_006):
\* each builds the CloneManager, chooses its layout, starts the batch and
\* consumes the progress channel into its counters.
workerVars == <<cm_closed, cm_wg, semaphore, semCap, concurrentArg, nCalls, batchOf,
                cw, progress, cloneInvoked, statFound>>

\* a selection in which the first two repositories (alice/app, bob/app) have
\* the same name
SameLeaf == [i \in Repos |-> IF i <= 2 THEN "app" ELSE "tool"]

\* part_006:808-823 : some name occurs twice in the selection
NameCollision == \E i, j \in Repos : i # j /\ repo_Name[i] = repo_Name[j]

\* destinations of the repositories S left behind by an earlier run, under
\* either layout
PreCloned(S) ==
    UNION { { <<Repository(i).Name>>, <<Repository(i).Owner, Repository(i).Name>> } : i \in S }

CloneSiteInit ==
    /\ site \in {"ui", "tea"}
    /\ repo_Name \in {DistinctNames, SameLeaf}
    /\ config_CreateSubdirs \in BOOLEAN
    /\ ctxCancelled = FALSE
    /\ cm_createSubdirs = FALSE
    /\ fs \in {PreCloned({}), PreCloned({1}), PreCloned(Repos)}
    /\ statuses = [i \in Repos |-> ""]
    /\ completed = {}
    /\ errors = {}
    /\ successCount = 0
    /\ errorCount = 0
    /\ allCompleted = FALSE
    /\ autoSubdirs = FALSE
    /\ cloneStarted = FALSE
    /\ teapc = IF site = "tea" THEN "init" ELSE "off"
    /\ teamsg = NoMsg
    /\ ExecIdle
    /\ DetectIdle
    /\ InvIdle
    /\ CallIdle
    /\ newManagerArg = 0
    /\ m_concurrent = NewManagerConcurrent(newManagerArg)
    /\ m_skipOnError = FALSE
    /\ m_progress = <<>>
    /\ m_closed = FALSE
    /\ repositories = <<>>
    /\ results = <<>>
    /\ inst_wg = 0
    /\ inst_semaphore = 0
    /\ iw = [i \in Repos |-> "idle"]
    /\ result = [i \in Repos |-> NewInstallResult(i)]
    /\ projectType = [i \in Repos |-> NilProject]
    /\ allSuccessful = [i \in Repos |-> TRUE]
    /\ executed = [i \in Repos |-> 0]
    /\ cm_progress = <<>>
    /\ cm_closed = FALSE
    /\ cm_wg = 0
    /\ semaphore = [b \in Batches |-> 0]
    /\ semCap = [b \in Batches |-> 0]
    /\ concurrentArg = [b \in Batches |-> 0]
    /\ nCalls = 0
    /\ batchOf = [i \in Repos |-> 0]
    /\ cw = [i \in Repos |-> "idle"]
    /\ progress = [i \in Repos |-> StartingProgress(i)]
    /\ callerpc = "new"
    /\ termRecv = [i \in Repos |-> 0]
    /\ termDropped = {}
    /\ cloneInvoked = {}
    /\ statFound = [i \in Repos |-> ""]

\* CloningManager.performCloning (part_011:271-281) up to the call of
\* CloneRepositories: NewCloneManager, SetCreateSubdirs(config value),
\* go monitorProgress().
PerformCloning ==
    /\ site = "ui"
    /\ callerpc = "new"
    /\ cm_createSubdirs' = config_CreateSubdirs
    /\ callerpc' = "calling"
    /\ UNCHANGED <<auxVars, installVars, site, ctxCancelled, fs, cm_progress, workerVars,
                   termRecv, termDropped>>

\* (mutant) the consumer counts every event, not only the completed=true ones
UiMonitorProgress_CountEveryEvent ==
    /\ site = "ui"
    /\ callerpc # "new"
    /\ Len(cm_progress) > 0
    /\ LET ev == Head(cm_progress)
           i  == RepoOf(ev.Repository)
           sc == IF ev.Error = "" THEN successCount + 1 ELSE successCount
           ec == IF ev.Error # "" THEN errorCount + 1 ELSE errorCount
       IN /\ cm_progress' = Tail(cm_progress)
          /\ statuses' = [statuses EXCEPT ![i] = ev.Status]
          /\ completed' = IF ev.Completed THEN completed \cup {i} ELSE completed
          /\ errors' = IF ev.Completed /\ ev.Error # "" THEN errors \cup {i} ELSE errors
          /\ successCount' = sc
          /\ errorCount' = ec
          /\ allCompleted' = (allCompleted \/ (ev.Completed /\ sc + ec >= Cardinality(Repos)))
          /\ termRecv' = IF ev.Completed THEN [termRecv EXCEPT ![i] = @ + 1] ELSE termRecv
    /\ UNCHANGED <<fixedVars, teaVars, installVars, site,
                   ctxCancelled, fs, cm_createSubdirs, workerVars, callerpc, termDropped>>

\* CloningManager.monitorProgress (part_011:288-321): one iteration of the
\* loop over the progress channel.
UiMonitorProgress ==
    /\ site = "ui"
    /\ callerpc # "new"
    /\ Len(cm_progress) > 0
    /\ LET ev == Head(cm_progress)
           i  == RepoOf(ev.Repository)
           sc == IF ev.Completed /\ ev.Error = "" THEN successCount + 1 ELSE successCount
           ec == IF ev.Completed /\ ev.Error # "" THEN errorCount + 1 ELSE errorCount
       IN /\ cm_progress' = Tail(cm_progress)
          /\ statuses' = [statuses EXCEPT ![i] = ev.Status]
          /\ completed' = IF ev.Completed THEN completed \cup {i} ELSE completed
          /\ errors' = IF ev.Completed /\ ev.Error # "" THEN errors \cup {i} ELSE errors
          /\ successCount' = sc
          /\ errorCount' = ec
          /\ allCompleted' = (allCompleted \/ (ev.Completed /\ sc + ec >= Cardinality(Repos)))
          /\ termRecv' = IF ev.Completed THEN [termRecv EXCEPT ![i] = @ + 1] ELSE termRecv
    /\ UNCHANGED <<fixedVars, teaVars, installVars, site,
                   ctxCancelled, fs, cm_createSubdirs, workerVars, callerpc, termDropped>>

\* CloningModel.startCloningProcess (part_006:769-831): the collision check,
\* NewCloneManager, SetCreateSubdirs; the command returns CloneStartMsg.
TeaStartCloningProcess ==
    /\ site = "tea"
    /\ teapc = "init"
    /\ cm_createSubdirs' = (config_CreateSubdirs \/ NameCollision)
    /\ autoSubdirs' = (~config_CreateSubdirs /\ NameCollision)
    /\ teapc' = "startMsg"
    /\ UNCHANGED <<fixedVars, uiVars, cloneStarted, teamsg,
                   installVars, site, ctxCancelled, fs, cm_progress, workerVars,
                   callerpc, termRecv, termDropped>>

\* CloningModel.Update, case CloneStartMsg (part_006:537-544): the first start
\* message launches the monitorProgress command.
TeaUpdateCloneStart ==
    /\ site = "tea"
    /\ teapc = "startMsg"
    /\ teapc' = "monitor"
    /\ UNCHANGED <<fixedVars, uiVars, autoSubdirs, cloneStarted,
                   teamsg, installVars, site, ctxCancelled, fs, cloneVars, callerpc,
                   termRecv, termDropped>>

\* CloningModel.monitorProgress (part_006:836-839): the first run of the command
\* starts the goroutine that calls CloneRepositories.
TeaMonitorSpawn ==
    /\ site = "tea"
    /\ teapc = "monitor"
    /\ cloneStarted' = TRUE
    /\ callerpc' = IF cloneStarted THEN callerpc ELSE "calling"
    /\ teapc' = "select"
    /\ UNCHANGED <<fixedVars, uiVars, autoSubdirs, teamsg,
                   installVars, site, ctxCancelled, fs, cloneVars, termRecv, termDropped>>

\* the CloneProgressMsg of the 10 s timeout (part_006:868-872)
SystemTimeoutMsg ==
    [Repository |-> <<"system">>, Status |-> "", Progress |-> 0,
     Error |-> "cloning timeout - no progress received", Completed |-> FALSE]

\* CloningModel.monitorProgress (part_006:842-874): the select over the
\* progress channel, ctx.Done() and the 10 s timer.  The channel is never
\* closed at this site, so a receive always yields a value.
TeaMonitorSelect ==
    /\ site = "tea"
    /\ teapc = "select"
    /\ \/ /\ Len(cm_progress) > 0
          /\ teamsg' = Head(cm_progress)
          /\ cm_progress' = Tail(cm_progress)
          /\ termRecv' = IF Head(cm_progress).Completed
                         THEN [termRecv EXCEPT ![RepoOf(Head(cm_progress).Repository)] = @ + 1]
                         ELSE termRecv
          /\ teapc' = "msg"
       \/ /\ ctxCancelled
          /\ teapc' = "completeMsg"
          /\ UNCHANGED <<teamsg, cm_progress, termRecv>>
       \/ /\ Len(cm_progress) = 0
          /\ teamsg' = SystemTimeoutMsg
          /\ teapc' = "msg"
          /\ UNCHANGED <<cm_progress, termRecv>>
    /\ UNCHANGED <<fixedVars, uiVars, autoSubdirs, cloneStarted,
                   installVars, site, ctxCancelled, fs, cm_createSubdirs, workerVars,
                   callerpc, termDropped>>

\* strings.Contains(msg.Error.Error(), "already exists")  (part_006:890)
IsAlreadyExists(err) == err = "already exists"

\* CloningModel.Update, case CloneProgressMsg -> handleProgressUpdate
\* (part_006:878-932)
TeaHandleProgressUpdate ==
    /\ site = "tea"
    /\ teapc = "msg"
    /\ LET msg == teamsg
           sys == msg.Repository = <<"system">>
           i   == RepoOf(msg.Repository)
           counted == msg.Completed /\ ~sys
           asSuccess == counted /\ (msg.Error = "" \/ IsAlreadyExists(msg.Error))
           asError == counted /\ ~(msg.Error = "" \/ IsAlreadyExists(msg.Error))
           sc == IF asSuccess THEN successCount + 1 ELSE successCount
           ec == IF asError THEN errorCount + 1 ELSE errorCount
           allDone == msg.Completed /\ sc + ec >= Cardinality(Repos)
       IN /\ statuses' = IF sys THEN statuses
                         ELSE [statuses EXCEPT ![i] =
                                 IF counted /\ msg.Error # "" /\ IsAlreadyExists(msg.Error)
                                 THEN "Already exists (skipped)" ELSE msg.Status]
          /\ completed' = IF counted THEN completed \cup {i} ELSE completed
          /\ errors' = IF asError THEN errors \cup {i} ELSE errors
          /\ successCount' = sc
          /\ errorCount' = ec
          /\ allCompleted' = (allCompleted \/ (~allDone /\ sys /\ msg.Error # ""))
          /\ teapc' = IF allDone THEN "completeMsg"
                      ELSE IF sys /\ msg.Error # "" THEN "idle"
                      ELSE IF ~allCompleted /\ ~sys THEN "select"
                      ELSE "idle"
    /\ teamsg' = NoMsg
    /\ UNCHANGED <<fixedVars, autoSubdirs, cloneStarted,
                   installVars, site, ctxCancelled, fs, cloneVars, callerpc, termRecv,
                   termDropped>>

\* CloningModel.Update, case CloneCompleteMsg (part_006:533-535)
TeaUpdateCloneComplete ==
    /\ site = "tea"
    /\ teapc = "completeMsg"
    /\ allCompleted' = TRUE
    /\ teapc' = "idle"
    /\ UNCHANGED <<fixedVars, statuses, completed, errors,
                   successCount, errorCount, autoSubdirs, cloneStarted, teamsg,
                   installVars, site, ctxCancelled, fs, cloneVars, callerpc, termRecv,
                   termDropped>>

\* ctrl+c while the batch is not complete (part_011:132-134, part_006:508-511)
UiCancel ==
    /\ site \in {"ui", "tea"}
    /\ callerpc # "new" \/ teapc \notin {"off", "init"}
    /\ ~allCompleted
    /\ Cancel

CloneSiteNext ==
    \/ PerformCloning
    \/ CallCloneRepositories
    \/ \E i \in Repos : CloneWorkerStep(i)
    \/ UiMonitorProgress
    \/ TeaStartCloningProcess
    \/ TeaUpdateCloneStart
    \/ TeaMonitorSpawn
    \/ TeaMonitorSelect
    \/ TeaHandleProgressUpdate
    \/ TeaUpdateCloneComplete
    \/ UiCancel

CloneSiteSpec == CloneSiteInit /\ [][CloneSiteNext]_vars

\* --------------------------------------------------------------------- C14
\* item i has produced its successful terminal result
CompletedOk(i) ==
    /\ cw[i] \in {"exit", "done"}
    /\ progress[i].Status = "Completed"

\* C14: once cancellation has been triggered, no step removes the destination
\* directory of an item that has already produced a successful terminal
\* result, and no step alters that item's terminal event.
C14_CancelKeepsCompleted ==
    [][\A i \in Repos :
          (ctxCancelled /\ CompletedOk(i) /\ TargetPath(i) \in fs)
              => (TargetPath(i) \in fs' /\ progress'[i] = progress[i])]_vars

\* a completed item whose destination is gone after the cancellation
C14_Witness ==
    \E i \in Repos : ctxCancelled /\ CompletedOk(i) /\ TargetPath(i) \notin fs

\* --------------------------------------------------------------------- C15
\* some worker of the batch has been dispatched
Dispatched == \E i \in Repos : cw[i] # "idle"

\* the layout the batch is to use: namespaced when configured so or when two
\* selected repositories have the same name
NamespacedLayoutDue == config_CreateSubdirs \/ NameCollision

\* C15: from the moment the first worker is dispatched the whole batch uses
\* the namespaced layout (targetDir/owner/name) exactly when it is configured
\* or two items have the same leaf name, and targetDir/name otherwise, at
\* every call site.
C15_CollisionUsesNamespacedLayout ==
    Dispatched => (cm_createSubdirs = NamespacedLayoutDue)

\* two dispatched items of one batch with the same destination
C15_Witness ==
    \E i, j \in Repos :
        i # j /\ cw[i] # "idle" /\ cw[j] # "idle" /\ TargetPath(i) = TargetPath(j)

\* the part of C15 the code keeps at the bubbletea call site
TeaLayoutDecidedBeforeDispatch ==
    (site = "tea" /\ Dispatched) => (cm_createSubdirs = NamespacedLayoutDue)

\* the part of C15 the code keeps at every call site: the layout is not
\* changed once a worker has been dispatched
LayoutNeverChangesAfterDispatch ==
    [][Dispatched => cm_createSubdirs' = cm_createSubdirs]_vars

\* --------------------------------------------------------------------- C16
\* the consumer has processed item i's terminal event, which carried the
\* "already exists" error of clone.go:116-123
SkippedConsumed(i) ==
    /\ i \in completed
    /\ progress[i].Completed
    /\ progress[i].Error = "already exists"

\* C16: the consumer counts a terminal event with an "already exists" error
\* as a success with a "skipped" status: it is not in the error map, and the
\* failure count stays at the number of items that failed for another reason.
C16_AlreadyExistsIsSuccess ==
    /\ \A i \in Repos :
          SkippedConsumed(i) => (i \notin errors /\ statuses[i] = "Already exists (skipped)")
    /\ errorCount = Cardinality({i \in completed : progress[i].Error \notin {"", "already exists"}})

\* a consumed "already exists" event that was counted as a failure
C16_Witness ==
    \E i \in Repos : SkippedConsumed(i) /\ i \in errors /\ errorCount > 0

\* the part of C16 the code keeps: the bubbletea consumer
TeaAlreadyExistsIsSuccess ==
    site = "tea" => C16_AlreadyExistsIsSuccess

\* --------------------------------------------------------------------- C17
\* what the consumer of the running call site counts as a failure
CountsAsFailure(i) ==
    IF site = "tea" THEN progress[i].Error \notin {"", "already exists"}
    ELSE progress[i].Error # ""

\* C17: the consumer counts each item whose terminal event it has processed
\* exactly once, as a success or as a failure: successCount + errorCount is
\* the number of processed items, never more than the batch size N, and N
\* once the terminal events of all N items are processed.
C17_CountsEachItemOnce ==
    /\ successCount + errorCount = Cardinality(completed)
    /\ successCount + errorCount <= Cardinality(Repos)
    /\ errorCount = Cardinality({i \in completed : CountsAsFailure(i)})
    /\ successCount = Cardinality({i \in completed : ~CountsAsFailure(i)})
    /\ \A i \in Repos : termRecv[i] <= 1 /\ (i \in completed => termRecv[i] = 1)
    /\ completed = Repos => successCount + errorCount = Cardinality(Repos)

\* all N terminal events processed, one destination pre-existing: N-1
\* successes and 1 failure
C17_Witness ==
    /\ site = "ui"
    /\ completed = Repos
    /\ statFound[1] = "exists"
    /\ errorCount = 1
    /\ successCount = Cardinality(Repos) - 1

\* the same batch at the bubbletea site: N successes with the skip remap
C17_WitnessRemap ==
    /\ site = "tea"
    /\ completed = Repos
    /\ statFound[1] = "exists"
    /\ errorCount = 0
    /\ successCount = Cardinality(Repos)

\* ======================================== the call site of an install batch
\* ui.InstallationManager (installation.go:173-256): performInstallation
\* builds the Manager with NewManager(3, 10min) and SetSkipOnError(true),
\* starts monitorProgress and calls InstallDependencies.
InstallSiteInit ==
    /\ site = "install"
    /\ repo_Name = DistinctNames
    /\ config_CreateSubdirs = FALSE
    /\ UiIdle
    /\ ExecIdle
    /\ DetectIdle
    /\ InvIdle
    /\ CallIdle
    /\ ctxCancelled = FALSE
    /\ cm_createSubdirs = FALSE
    /\ fs = {}
    /\ newManagerArg = InstallSiteConcurrent
    /\ m_concurrent = NewManagerConcurrent(newManagerArg)
    /\ m_skipOnError = TRUE
    /\ m_progress = <<>>
    /\ m_closed = FALSE
    /\ repositories \in UNION {[1..n -> DirKinds] : n \in 0..NumItems}
    /\ results = <<>>
    /\ inst_wg = 0
    /\ inst_semaphore = 0
    /\ iw = [i \in Repos |-> "idle"]
    /\ result = [i \in Repos |-> NewInstallResult(i)]
    /\ projectType = [i \in Repos |-> NilProject]
    /\ allSuccessful = [i \in Repos |-> TRUE]
    /\ executed = [i \in Repos |-> 0]
    /\ cm_progress = <<>>
    /\ cm_closed = FALSE
    /\ cm_wg = 0
    /\ semaphore = [b \in Batches |-> 0]
    /\ semCap = [b \in Batches |-> 0]
    /\ concurrentArg = [b \in Batches |-> 0]
    /\ nCalls = 0
    /\ batchOf = [i \in Repos |-> 0]
    /\ cw = [i \in Repos |-> "idle"]
    /\ progress = [i \in Repos |-> StartingProgress(i)]
    /\ callerpc = "calling"
    /\ termRecv = [i \in Repos |-> 0]
    /\ termDropped = {}
    /\ cloneInvoked = {}
    /\ statFound = [i \in Repos |-> ""]

\* InstallationManager.monitorProgress (installation.go:200-256): one
\* iteration of the loop over the progress channel.
InstMonitorProgress ==
    /\ site = "install"
    /\ Len(m_progress) > 0
    /\ LET ev == Head(m_progress)
           i  == PathOf(Base(<<ev.Repository>>))
           sc == IF ev.Completed /\ ev.Error = "" THEN successCount + 1 ELSE successCount
           ec == IF ev.Completed /\ ev.Error # "" THEN errorCount + 1 ELSE errorCount
       IN /\ m_progress' = Tail(m_progress)
          /\ statuses' = [statuses EXCEPT ![i] = ev.Status]
          /\ completed' = IF ev.Completed THEN completed \cup {i} ELSE completed
          /\ errors' = IF ev.Completed /\ ev.Error # "" THEN errors \cup {i} ELSE errors
          /\ successCount' = sc
          /\ errorCount' = ec
          /\ allCompleted' = (allCompleted \/ sc + ec >= Len(repositories))
          /\ termRecv' = IF ev.Completed THEN [termRecv EXCEPT ![i] = @ + 1] ELSE termRecv
    /\ UNCHANGED <<fixedVars, teaVars, site, ctxCancelled, fs,
                   cloneVars, newManagerArg, m_concurrent, m_skipOnError, m_closed,
                   repositories, results, inst_wg, inst_semaphore, iw, result,
                   projectType, allSuccessful, executed, callerpc, termDropped>>

InstallSiteNext ==
    \/ InstallCallerStep
    \/ \E i \in Repos : InstallWorkerStep(i)
    \/ InstMonitorProgress
    \/ Cancel

InstallSiteSpec == InstallSiteInit /\ [][InstallSiteNext]_vars

\* --------------------------------------------------------------------- C18
\* the install batch is complete and the consumer has processed the terminal
\* event of every item
InstallSummaryFinal ==
    /\ site = "install"
    /\ callerpc = "returned"
    /\ Len(results) = Len(repositories)
    /\ \A i \in Paths : i \in completed

\* C18: in the final install summary the consumer's failure count is the
\* number of items whose result has Success = false and its success count is
\* the number of items whose result has Success = true.
C18_SummaryCountsFaithful ==
    InstallSummaryFinal =>
        /\ errorCount = Cardinality({i \in Paths : ~results[i].Success})
        /\ successCount = Cardinality({i \in Paths : results[i].Success})

\* a final summary with no failure counted although an item's result has
\* Success = false
C18_Witness ==
    /\ InstallSummaryFinal
    /\ errorCount = 0
    /\ \E i \in Paths : ~results[i].Success

\* what the consumers do count: every processed item once, and a failure only
\* for a terminal event that carries an error
InstallCountsProcessed ==
    /\ successCount + errorCount = Cardinality(completed)
    /\ errorCount = Cardinality(errors)

\* ======================================================== one detection
\* no manager has been built and no batch started
NothingStarted ==
    /\ repo_Name = DistinctNames
    /\ config_CreateSubdirs = FALSE
    /\ UiIdle
    /\ InvIdle
    /\ ctxCancelled = FALSE
    /\ cm_createSubdirs = FALSE
    /\ fs = {}
    /\ m_progress = <<>>
    /\ m_closed = FALSE
    /\ repositories = <<>>
    /\ results = <<>>
    /\ inst_wg = 0
    /\ inst_semaphore = 0
    /\ iw = [i \in Repos |-> "idle"]
    /\ result = [i \in Repos |-> NewInstallResult(i)]
    /\ projectType = [i \in Repos |-> NilProject]
    /\ allSuccessful = [i \in Repos |-> TRUE]
    /\ executed = [i \in Repos |-> 0]
    /\ cm_progress = <<>>
    /\ cm_closed = FALSE
    /\ cm_wg = 0
    /\ semaphore = [b \in Batches |-> 0]
    /\ semCap = [b \in Batches |-> 0]
    /\ concurrentArg = [b \in Batches |-> 0]
    /\ nCalls = 0
    /\ batchOf = [i \in Repos |-> 0]
    /\ cw = [i \in Repos |-> "idle"]
    /\ progress = [i \in Repos |-> StartingProgress(i)]
    /\ termRecv = [i \in Repos |-> 0]
    /\ termDropped = {}
    /\ cloneInvoked = {}
    /\ statFound = [i \in Repos |-> ""]

\* a directory entry that is itself a directory
Dir(name) == [name |-> name, ext |-> "", isDir |-> TRUE, nested |-> FALSE]

\* a package.json whose text names "next" under dependencies but is not
\* valid JSON (a trailing comma, say)
MalformedListingNext ==
    [Malformed |-> TRUE, Dependencies |-> {"next"}, DevDependencies |-> {}]

\* entries a project directory may hold
EntryPool ==
    { File("package.json", "json"), File("yarn.lock", "lock"),
      File("package-lock.json", "json"), File("next.config.js", "js"),
      File("angular.json", "json"), File("go.mod", "mod"), Dir("pages"),
      File("composer.json", "json"), File("CMakeLists.txt", "txt"),
      File("app.csproj", "csproj"), File("README.md", "md") }

\* what its package.json may hold
PackagePool ==
    { MalformedPackage, MalformedListingNext, NoPackage,
      Package({"next"}, {}),
      Package({}, {"next"}),
      Package({"react"}, {}),
      Package({"next", "react", "@angular/core", "vue"}, {}) }

DetectInit ==
    /\ site = "detect"
    /\ NothingStarted
    /\ CallIdle
    /\ ExecIdle
    /\ newManagerArg = 0
    /\ m_concurrent = NewManagerConcurrent(newManagerArg)
    /\ m_skipOnError = FALSE
    /\ callerpc = "calling"
    /\ det_dir \in [entries : SUBSET EntryPool, pkg : PackagePool]
    /\ det_result = "?"
    /\ det_again = "?"

\* detect.NewDetector(path).DetectPrimaryProject()
Detect ==
    /\ site = "detect"
    /\ det_result = "?"
    /\ det_result' = DetectPrimaryProject(det_dir).Name
    /\ UNCHANGED <<site, ctxCancelled, fs, cloneVars, installVars, callerpc, termRecv,
                   termDropped, repo_Name, config_CreateSubdirs, execVars, det_dir,
                   det_again, invVars, callVars, uiVars, teaVars>>

\* (mutant) the second call meets the matches in the opposite order, as a
\* range over a map could deliver them
DetectAgain_OtherOrder ==
    /\ site = "detect"
    /\ det_result # "?"
    /\ det_again = "?"
    /\ LET projects == DetectProjects(det_dir)
           rev == [k \in 1..Len(projects) |-> projects[Len(projects) + 1 - k]]
           best == BestFrom(rev, 1, NilProject, -1)
       IN det_again' = IF Len(rev) = 0 THEN ""
                       ELSE IF best = NilProject THEN rev[1].Name ELSE best.Name
    /\ UNCHANGED <<site, ctxCancelled, fs, cloneVars, installVars, callerpc, termRecv,
                   termDropped, repo_Name, config_CreateSubdirs, execVars, det_dir,
                   det_result, invVars, callVars, uiVars, teaVars>>

\* DetectPrimaryProject is called a second time; nothing on disk has changed
DetectAgain ==
    /\ site = "detect"
    /\ det_result # "?"
    /\ det_again = "?"
    /\ det_again' = DetectPrimaryProject(det_dir).Name
    /\ UNCHANGED <<site, ctxCancelled, fs, cloneVars, installVars, callerpc, termRecv,
                   termDropped, repo_Name, config_CreateSubdirs, execVars, det_dir,
                   det_result, invVars, callVars, uiVars, teaVars>>

DetectNext == Detect \/ DetectAgain

DetectSpec == DetectInit /\ [][DetectNext]_vars

\* --------------------------------------------------------------------- C20
\* the directory holds a package.json that lists "next" under dependencies or
\* devDependencies, and a yarn.lock
NextWithYarn(d) ==
    /\ \E e \in d.entries : e.name = "package.json" /\ ~e.isDir
    /\ \E e \in d.entries : e.name = "yarn.lock"
    /\ ~d.pkg.Malformed
    /\ "next" \in d.pkg.Dependencies \cup d.pkg.DevDependencies

\* C20: for a directory whose package.json lists "next" in dependencies or
\* devDependencies and that has a yarn.lock, DetectPrimaryProject returns
\* "Next.js (Yarn Package)", whatever other catalog entries match.
C20_NextYarnWins ==
    (det_result # "?" /\ NextWithYarn(det_dir)) =>
        det_result = "Next.js (Yarn Package)"

\* "next" listed under devDependencies only, with the generic yarn, npm,
\* Next.js-by-file, Angular and Go descriptors matching as well
C20_Witness ==
    /\ det_result = "Next.js (Yarn Package)"
    /\ det_dir.entries = EntryPool
    /\ det_dir.pkg = Package({}, {"next"})
    /\ Len(DetectProjects(det_dir)) > 3

\* ================================ one executeCommand call, by goroutine
\* installForRepository runs the only command of a Rust project for item 1.
\* The CommandResult and InstallResult of the call are what InstStart and
\* InstExecReturn compute; here the goroutines executeCommand starts and
\* their sends are followed one by one.  Positions:
\*   worker  running, start, wait, closeDone, wgWait, terminal, exit, done
\*   stdout  scan, done          stderr  scan, done
\*   ticker  select, returned
\* and, inside Manager.sendProgress, "send:<event>" (the first select) and
\* "retry:<event>" (after the 100 ms timer); "panic" after a send on the
\* closed channel.
ExecItem == 1
ExecCommand == SupportedProjects[8].Commands[1]
ExecProject == SupportedProjects[8].Name

ExecInit ==
    /\ site = "exec"
    /\ NothingStarted
    /\ CallIdle
    /\ DetectIdle
    /\ newManagerArg = InstallSiteConcurrent
    /\ m_concurrent = NewManagerConcurrent(newManagerArg)
    /\ m_skipOnError = TRUE
    /\ callerpc = "waiting"
    /\ gpc = [g \in Goroutines |-> IF g = "worker" THEN "running" ELSE "off"]
    /\ stdoutLines \in 0..MaxLines
    /\ procExited = FALSE
    /\ done_closed = FALSE
    /\ exec_wg = 0
    /\ ticks = 0

\* the event a goroutine hands to sendProgress
ExecEvent(kind) ==
    CASE kind = "running" ->
            InstallProgress(ExecItem, ExecProject, ExecCommand.Command,
                            "Running: cargo build", FALSE)
      [] kind = "line" ->
            InstallProgress(ExecItem, ExecProject, ExecCommand.Command, "Running", FALSE)
      [] kind = "tick" ->
            InstallProgress(ExecItem, ExecProject, ExecCommand.Command, "Running...", FALSE)
      [] kind = "terminal" ->
            InstallProgress(ExecItem, ExecProject, "", "Completed", TRUE)

EventKinds == {"running", "line", "tick", "terminal"}
SendPos(kind) == IF kind = "running" THEN "send:running"
                 ELSE IF kind = "line" THEN "send:line"
                 ELSE IF kind = "tick" THEN "send:tick" ELSE "send:terminal"
RetryPos(kind) == IF kind = "running" THEN "retry:running"
                  ELSE IF kind = "line" THEN "retry:line"
                  ELSE IF kind = "tick" THEN "retry:tick" ELSE "retry:terminal"

\* where the goroutine goes on when sendProgress returns
AfterSend(kind) ==
    CASE kind = "running" -> "start"
      [] kind = "line" -> "scan"
      [] kind = "tick" -> "select"
      [] kind = "terminal" -> "exit"

\* the goroutine is inside Manager.sendProgress
InSendProgress(g) ==
    \E kind \in EventKinds : gpc[g] \in {SendPos(kind), RetryPos(kind)}

execFrame == <<site, ctxCancelled, fs, cloneVars, newManagerArg, m_concurrent,
               m_skipOnError, repositories, results, inst_wg, inst_semaphore,
               iw, result, projectType, allSuccessful, executed, termRecv,
               repo_Name, config_CreateSubdirs, detVars, invVars, callVars, uiVars, teaVars>>

\* Manager.sendProgress (part_001:1191-1202), the first select: the send goes
\* through when the buffer has room, otherwise the 100 ms timer fires.  A send
\* on a closed channel panics.
SendProgressFirst(g, kind) ==
    /\ gpc[g] = SendPos(kind)
    /\ IF m_closed
       THEN /\ m_progress' = m_progress
            /\ gpc' = [gpc EXCEPT ![g] = "panic"]
       ELSE IF Len(m_progress) < ChanCap
       THEN /\ m_progress' = Append(m_progress, ExecEvent(kind))
            /\ gpc' = [gpc EXCEPT ![g] = AfterSend(kind)]
       ELSE /\ m_progress' = m_progress
            /\ gpc' = [gpc EXCEPT ![g] = RetryPos(kind)]
    /\ UNCHANGED <<execFrame, m_closed, callerpc, termDropped, stdoutLines, procExited,
                   done_closed, exec_wg, ticks>>

\* Manager.sendProgress, the second select: send or give the event up
SendProgressRetry(g, kind) ==
    /\ gpc[g] = RetryPos(kind)
    /\ m_progress' = IF m_closed THEN m_progress ELSE TrySend(m_progress, ExecEvent(kind))
    /\ termDropped' = IF kind = "terminal" /\ ~m_closed /\ Len(m_progress) >= ChanCap
                      THEN termDropped \cup {ExecItem} ELSE termDropped
    /\ gpc' = [gpc EXCEPT ![g] = IF m_closed THEN "panic" ELSE AfterSend(kind)]
    /\ UNCHANGED <<execFrame, m_closed, callerpc, stdoutLines, procExited, done_closed, exec_wg,
                   ticks>>

\* executeCommand (part_001:1059-1064): sendProgress("Running: ...") is called
WorkerSendRunning ==
    /\ gpc["worker"] = "running"
    /\ gpc' = [gpc EXCEPT !["worker"] = SendPos("running")]
    /\ UNCHANGED <<execFrame, m_closed, callerpc, termDropped, m_progress, stdoutLines,
                   procExited, done_closed, exec_wg, ticks>>

\* executeCommand (part_001:1095-1167): execCmd.Start(); on a cancelled context
\* it fails and executeCommand returns; otherwise wg.Add(2) and the two pipe
\* readers and the ticker goroutine are started.
WorkerStart ==
    /\ gpc["worker"] = "start"
    /\ IF ctxCancelled
       THEN /\ gpc' = [gpc EXCEPT !["worker"] = "terminal"]
            /\ UNCHANGED exec_wg
       ELSE /\ gpc' = [g \in Goroutines |->
                          IF g = "worker" THEN "wait"
                          ELSE IF g = "ticker" THEN "select" ELSE "scan"]
            /\ exec_wg' = 2
    /\ UNCHANGED <<execFrame, m_closed, callerpc, termDropped, m_progress, stdoutLines,
                   procExited, done_closed, ticks>>

\* the subprocess exits (by itself, or killed through the cancelled context)
ProcessExit ==
    /\ gpc["worker"] = "wait"
    /\ ~procExited
    /\ procExited' = TRUE
    /\ UNCHANGED <<execFrame, m_closed, callerpc, termDropped, m_progress, stdoutLines, gpc,
                   done_closed, exec_wg, ticks>>

\* execCmd.Wait() returns (part_001:1170)
WorkerWaitReturn ==
    /\ gpc["worker"] = "wait"
    /\ procExited
    /\ gpc' = [gpc EXCEPT !["worker"] = "closeDone"]
    /\ UNCHANGED <<execFrame, m_closed, callerpc, termDropped, m_progress, stdoutLines,
                   procExited, done_closed, exec_wg, ticks>>

\* close(done) (part_001:1171)
WorkerCloseDone ==
    /\ gpc["worker"] = "closeDone"
    /\ done_closed' = TRUE
    /\ gpc' = [gpc EXCEPT !["worker"] = "wgWait"]
    /\ UNCHANGED <<execFrame, m_closed, callerpc, termDropped, m_progress, stdoutLines,
                   procExited, exec_wg, ticks>>

\* (mutant) executeCommand goes on without waiting for the pipe readers
WorkerWgWait_NoWait ==
    /\ gpc["worker"] = "wgWait"
    /\ gpc' = [gpc EXCEPT !["worker"] = "terminal"]
    /\ UNCHANGED <<execFrame, m_closed, callerpc, termDropped, m_progress, stdoutLines,
                   procExited, done_closed, exec_wg, ticks>>

\* wg.Wait() returns once both pipe readers are done (part_001:1172);
\* executeCommand returns and installForRepository reaches its terminal
\* event (part_001:1034-1049).
WorkerWgWait ==
    /\ gpc["worker"] = "wgWait"
    /\ exec_wg = 0
    /\ gpc' = [gpc EXCEPT !["worker"] = "terminal"]
    /\ UNCHANGED <<execFrame, m_closed, callerpc, termDropped, m_progress, stdoutLines,
                   procExited, done_closed, exec_wg, ticks>>

\* installForRepository (part_001:1042-1049): sendProgress(terminal event)
WorkerSendTerminal ==
    /\ gpc["worker"] = "terminal"
    /\ gpc' = [gpc EXCEPT !["worker"] = SendPos("terminal")]
    /\ UNCHANGED <<execFrame, m_closed, callerpc, termDropped, m_progress, stdoutLines,
                   procExited, done_closed, exec_wg, ticks>>

\* the stdout reader (part_001:1108-1137): scanner.Scan() yields a line and
\* sendProgress is called for it, or it reaches the end of the pipe.
StdoutScan ==
    /\ gpc["stdout"] = "scan"
    /\ \/ /\ stdoutLines > 0
          /\ stdoutLines' = stdoutLines - 1
          /\ gpc' = [gpc EXCEPT !["stdout"] = SendPos("line")]
          /\ UNCHANGED exec_wg
       \/ /\ procExited
          /\ stdoutLines = 0 \/ gpc["worker"] # "wait"
          /\ exec_wg' = exec_wg - 1
          /\ gpc' = [gpc EXCEPT !["stdout"] = "done"]
          /\ UNCHANGED stdoutLines
    /\ UNCHANGED <<execFrame, m_closed, callerpc, termDropped, m_progress, procExited,
                   done_closed, ticks>>

\* the stderr reader (part_001:1139-1146): it sends nothing
StderrScan ==
    /\ gpc["stderr"] = "scan"
    /\ procExited
    /\ exec_wg' = exec_wg - 1
    /\ gpc' = [gpc EXCEPT !["stderr"] = "done"]
    /\ UNCHANGED <<execFrame, m_closed, callerpc, termDropped, m_progress, stdoutLines,
                   procExited, done_closed, ticks>>

\* the ticker goroutine (part_001:1150-1167): select over ticker.C and done.
\* Nothing waits for this goroutine.
TickerSelect ==
    /\ gpc["ticker"] = "select"
    /\ \/ /\ ticks < MaxTicks
          /\ ticks' = ticks + 1
          /\ gpc' = [gpc EXCEPT !["ticker"] = SendPos("tick")]
       \/ /\ done_closed
          /\ gpc' = [gpc EXCEPT !["ticker"] = "returned"]
          /\ UNCHANGED ticks
    /\ UNCHANGED <<execFrame, m_closed, callerpc, termDropped, m_progress, stdoutLines,
                   procExited, done_closed, exec_wg>>

\* one receive from m.progress by the reader (installation.go:204)
ReceiveExec ==
    /\ site = "exec"
    /\ Len(m_progress) > 0
    /\ m_progress' = Tail(m_progress)
    /\ UNCHANGED <<execFrame, m_closed, callerpc, termDropped, execVars>>

\* the worker goroutine ends (part_001:948-951): the deferred release and
\* wg.Done()
ExecWorkerExit ==
    /\ gpc["worker"] = "exit"
    /\ gpc' = [gpc EXCEPT !["worker"] = "done"]
    /\ UNCHANGED <<execFrame, m_closed, callerpc, termDropped, m_progress, stdoutLines,
                   procExited, done_closed, exec_wg, ticks>>

\* InstallDependencies (part_001:954-957): wg.Wait() returns when every
\* worker has ended, then close(m.progress)
ExecInstallReturn ==
    /\ site = "exec"
    /\ callerpc = "waiting"
    /\ gpc["worker"] = "done"
    /\ m_closed' = TRUE
    /\ callerpc' = "returned"
    /\ UNCHANGED <<execFrame, termDropped, m_progress, execVars>>

\* the user cancels the batch
ExecCancel ==
    /\ site = "exec"
    /\ Cancel

ExecNext ==
    \/ WorkerSendRunning
    \/ WorkerStart
    \/ ProcessExit
    \/ WorkerWaitReturn
    \/ WorkerCloseDone
    \/ WorkerWgWait
    \/ WorkerSendTerminal
    \/ StdoutScan
    \/ StderrScan
    \/ TickerSelect
    \/ \E g \in Goroutines, kind \in EventKinds : SendProgressFirst(g, kind)
    \/ \E g \in Goroutines, kind \in EventKinds : SendProgressRetry(g, kind)
    \/ ReceiveExec
    \/ ExecWorkerExit
    \/ ExecInstallReturn
    \/ ExecCancel

ExecSpec == ExecInit /\ [][ExecNext]_vars

\* --------------------------------------------------------------------- C19
\* C19: at no time are two goroutines both sending progress events for the
\* same item.
C19_SingleWriterPerItem ==
    \A g, h \in Goroutines : (InSendProgress(g) /\ InSendProgress(h)) => g = h

\* the item's worker is in sendProgress with its terminal event while the
\* ticker goroutine of its last command is in sendProgress too
C19_Witness ==
    /\ gpc["worker"] \in {SendPos("terminal"), RetryPos("terminal")}
    /\ InSendProgress("ticker")

\* what holds of the item's own worker: it sends "Running: ..." before the
\* command is started and the terminal event after executeCommand returned
WorkerEventsInOrder ==
    /\ gpc["worker"] \in {SendPos("running"), RetryPos("running")}
          => \A g \in Goroutines \ {"worker"} : gpc[g] = "off"
    /\ gpc["worker"] \in {SendPos("terminal"), RetryPos("terminal"), "exit"}
          => (gpc["stdout"] \in {"off", "done"} /\ gpc["stderr"] \in {"off", "done"})

\* --------------------------------------------------------------------- C21
\* the catalog, in the order DetectProjects walks it (part_001:645-658)
Catalog == JSFrameworkDetectors \o SupportedProjects

\* the install command (first command) of the descriptor with this name
InstallCommandOf(name) ==
    LET k == CHOOSE k \in 1..Len(Catalog) : Catalog[k].Name = name
    IN Catalog[k].Commands[1].Command

HasFile(d, name) == \E e \in d.entries : e.name = name /\ ~e.isDir

\* C21: for a directory with a package.json the primary descriptor installs
\* with `yarn install` when yarn.lock is present and with `npm install` when
\* it is absent.
C21_LockfileDecidesPackageManager ==
    (det_result # "?" /\ HasFile(det_dir, "package.json")) =>
        /\ det_result # ""
        /\ InstallCommandOf(det_result) =
              IF HasFile(det_dir, "yarn.lock") THEN "yarn install" ELSE "npm install"

\* only package.json and package-lock.json, and the primary descriptor is
\* the yarn one
C21_Witness ==
    /\ det_dir.entries = {File("package.json", "json"), File("package-lock.json", "json")}
    /\ det_dir.pkg = NoPackage
    /\ det_result = "Node.js (yarn)"

\* the half of C21 the code keeps: with a yarn.lock the command is yarn's
YarnLockGivesYarn ==
    (det_result # "?" /\ HasFile(det_dir, "package.json") /\ HasFile(det_dir, "yarn.lock")) =>
        (det_result # "" /\ InstallCommandOf(det_result) = "yarn install")

\* --------------------------------------------------------------------- C22
\* the four groups of the catalog: package.json frameworks (the
\* JSFrameworkDetectors), file-marker frameworks (SupportedProjects from
\* "Next.js" on), the generic Node.js descriptors, every other ecosystem
Tier(name) ==
    IF \E k \in 1..Len(JSFrameworkDetectors) : JSFrameworkDetectors[k].Name = name THEN 4
    ELSE IF \E k \in 16..Len(SupportedProjects) : SupportedProjects[k].Name = name THEN 3
    ELSE IF name \in {"Node.js (npm)", "Node.js (yarn)"} THEN 2
    ELSE 1

\* the names of the descriptors that match the directory
MatchNames(d) == {DetectProjects(d)[k].Name : k \in 1..Len(DetectProjects(d))}

\* what the selection loop returns when it meets the matches in the opposite
\* order
PrimaryOfReversed(d) ==
    LET projects == DetectProjects(d)
        rev == [k \in 1..Len(projects) |-> projects[Len(projects) + 1 - k]]
    IN BestFrom(rev, 1, NilProject, -1).Name

\* C22: when some match has a rank, DetectPrimaryProject returns the match of
\* the highest rank; package.json frameworks outrank file-marker frameworks,
\* which outrank generic Node.js, which outranks the other ecosystems; and
\* the order in which the matches are met does not matter.
C22_HighestPriorityWins ==
    (det_result # "?" /\ MatchNames(det_dir) \cap DOMAIN priorities # {}) =>
        /\ det_result \in MatchNames(det_dir) \cap DOMAIN priorities
        /\ \A n \in MatchNames(det_dir) \cap DOMAIN priorities :
              priorities[det_result] >= priorities[n]
        /\ \A n \in MatchNames(det_dir) : Tier(det_result) >= Tier(n)
        /\ det_result = PrimaryOfReversed(det_dir)

\* two file-marker frameworks, both generic Node.js descriptors and Go match:
\* the file-marker framework of the higher rank is returned
C22_Witness ==
    /\ det_dir.entries = {File("package.json", "json"), File("next.config.js", "js"),
                          File("go.mod", "mod")}
    /\ det_dir.pkg = NoPackage
    /\ MatchNames(det_dir) =
          {"Next.js (Yarn)", "Next.js", "Node.js (npm)", "Node.js (yarn)", "Go"}
    /\ det_result = "Next.js (Yarn)"

\* the table itself: ranks are pairwise different and ordered by group
PriorityTableLayered ==
    \A a, b \in DOMAIN priorities :
        /\ (a # b => priorities[a] # priorities[b])
        /\ (Tier(a) > Tier(b) => priorities[a] > priorities[b])

\* --------------------------------------------------------------------- C23
\* the first descriptor in catalog declaration order that matches
FirstInCatalog(d) ==
    LET hits == {k \in 1..Len(Catalog) : Catalog[k].Name \in MatchNames(d)}
    IN Catalog[CHOOSE k \in hits : \A h \in hits : k <= h].Name

\* C23: when descriptors match and none of them has a rank in the priority
\* table, DetectPrimaryProject returns the first match in catalog
\* declaration order.
C23_UnrankedFirstInCatalog ==
    (/\ det_result # "?"
     /\ MatchNames(det_dir) # {}
     /\ MatchNames(det_dir) \cap DOMAIN priorities = {})
        => det_result = FirstInCatalog(det_dir)

\* the three descriptors without a rank match; the one declared first wins
C23_Witness ==
    /\ MatchNames(det_dir) = {"PHP (Composer)", "C++ (CMake)", "C# (.NET)"}
    /\ det_result = "PHP (Composer)"

JSFrameworkNames ==
    {JSFrameworkDetectors[k].Name : k \in 1..Len(JSFrameworkDetectors)}

\* C25: with a package.json that is not valid JSON no package.json-framework
\* descriptor matches, detection still returns a descriptor (and no error),
\* and the file-pattern matches, the generic Node.js descriptors among them,
\* are found.
C25_MalformedManifestDegrades ==
    (det_result # "?" /\ HasFile(det_dir, "package.json") /\ det_dir.pkg.Malformed) =>
        /\ MatchNames(det_dir) \cap JSFrameworkNames = {}
        /\ {"Node.js (npm)", "Node.js (yarn)"} \subseteq MatchNames(det_dir)
        /\ det_result \in MatchNames(det_dir)

\* a lone package.json whose broken text names "next": the generic descriptor
C25_Witness ==
    /\ det_dir.entries = {File("package.json", "json")}
    /\ det_dir.pkg = MalformedListingNext
    /\ det_result = "Node.js (yarn)"

\* --------------------------------------------------------------------- C26
\* some catalog entry matches: a pattern of a SupportedProjects entry finds a
\* file, or a package.json framework finds its dependency
AnyCatalogMatch(d) ==
    \/ \E k \in 1..Len(SupportedProjects) :
          \E f \in 1..Len(SupportedProjects[k].Files) :
              hasMatchingFiles(d, SupportedProjects[k].Files[f])
    \/ \E k \in 1..Len(JSFrameworkDetectors) : matchesJSFramework(d, JSFrameworkDetectors[k])

\* C26: DetectPrimaryProject returns the nil descriptor exactly when no
\* catalog entry matches the directory.
C26_NilIffNoMatch ==
    det_result # "?" => ((det_result = "") <=> ~AnyCatalogMatch(det_dir))

\* a directory with a README only: nothing matches, nil is returned
C26_Witness ==
    /\ det_dir.entries = {File("README.md", "md")}
    /\ det_result = ""

\* --------------------------------------------------------------------- C27
\* C27: once InstallDependencies has closed the progress channel no goroutine
\* is sending on it or has still to send on it: the worker, the stdout reader
\* and the ticker goroutine of every command have stopped.
C27_NoSenderAfterClose ==
    m_closed =>
        \A g \in Goroutines :
            /\ ~InSendProgress(g)
            /\ gpc[g] # "panic"
            /\ gpc[g] \in {"off", "done", "returned"}

\* the ticker goroutine has sent on the closed channel
C27_Witness ==
    m_closed /\ gpc["ticker"] = "panic"

\* the part of C27 the code keeps: the worker and the pipe readers are done
\* when the channel is closed
JoinedSendersDoneAtClose ==
    m_closed => \A g \in {"worker", "stdout", "stderr"} : gpc[g] \in {"off", "done"}

\* the clone side of C27: when Wait closes the channel every clone worker
\* started by CloneRepositories has ended
CloneSendersDoneAtClose ==
    cm_closed => \A i \in Repos : cw[i] \in {"idle", "done"}


\* ============================== bubbletea InstallationModel (search.go)
\* The installation screen on one repository path.  monitorProgress starts
\* InstallDependencies(m.ctx, m.repositories) in a goroutine of its own each
\* time it runs, every time on the same Manager and the same path.  In this
\* specification index k of the per-path variables (iw, result, results, ...)
\* is the k-th of these calls: its worker goroutine for the path, and its
\* results slice.  repo_Name gives every index the same name, so that all the
\* calls work on the same path; inst_wg and inst_semaphore hold the sums of
\* the calls' own WaitGroups and semaphores (each call makes its own,
\* part_001:938-940), and a call's wg.Wait() returns when its worker is done.
\* Calls are numbered up to NumItems; monitorProgress is not followed further
\* once that many calls have been started.
Invocations == Repos

\* every call is handed the same path
SamePath == [k \in Repos |-> "app"]

\* InstallProgressMsg (search.go:997-1003): the fields monitorProgress copies
InstallProgressMsg(p) ==
    [Repository |-> p.Repository, ProjectType |-> p.ProjectType,
     Status |-> p.Status, Error |-> p.Error, Completed |-> p.Completed]

\* the zero InstallProgressMsg: no message is on its way to Update
NoInstallMsg ==
    [Repository |-> "", ProjectType |-> "", Status |-> "", Error |-> "",
     Completed |-> FALSE]

\* search.go:969-972 and 1014-1017 : the messages of Repository "system"
SystemInstallMsg(err) ==
    [Repository |-> "system", ProjectType |-> "", Status |-> "", Error |-> err,
     Completed |-> FALSE]

\* len(m.repositories): no path or the one path
LenRepositories == IF Len(repositories) = 0 THEN 0 ELSE 1

\* a goroutine has panicked (send on a closed channel, close of a closed
\* channel): the process is gone
Panicked == \E k \in Invocations : iw[k] = "panic" \/ invpc[k] = "panic"

TeaInstallInit ==
    /\ site = "teainstall"
    /\ repo_Name = SamePath
    /\ config_CreateSubdirs = FALSE
    /\ statuses = [i \in Repos |-> ""]
    /\ completed = {}
    /\ errors = {}
    /\ successCount = 0
    /\ errorCount = 0
    /\ allCompleted = FALSE
    /\ autoSubdirs = FALSE
    /\ cloneStarted = FALSE
    /\ teapc = "init"
    /\ teamsg = NoInstallMsg
    /\ ExecIdle
    /\ DetectIdle
    /\ InvIdle
    /\ CallIdle
    /\ ctxCancelled = FALSE
    /\ cm_createSubdirs = FALSE
    /\ fs = {}
    /\ newManagerArg = 0
    /\ m_concurrent = 0
    /\ m_skipOnError = FALSE
    /\ m_progress = <<>>
    /\ m_closed = FALSE
    /\ repositories \in {<<>>} \cup {[k \in Repos |-> kind] : kind \in DirKinds}
    /\ results = [k \in Repos |-> ZeroInstallResult]
    /\ inst_wg = 0
    /\ inst_semaphore = 0
    /\ iw = [i \in Repos |-> "idle"]
    /\ result = [i \in Repos |-> NewInstallResult(i)]
    /\ projectType = [i \in Repos |-> NilProject]
    /\ allSuccessful = [i \in Repos |-> TRUE]
    /\ executed = [i \in Repos |-> 0]
    /\ cm_progress = <<>>
    /\ cm_closed = FALSE
    /\ cm_wg = 0
    /\ semaphore = [b \in Batches |-> 0]
    /\ semCap = [b \in Batches |-> 0]
    /\ concurrentArg = [b \in Batches |-> 0]
    /\ nCalls = 0
    /\ batchOf = [i \in Repos |-> 0]
    /\ cw = [i \in Repos |-> "idle"]
    /\ progress = [i \in Repos |-> StartingProgress(i)]
    /\ callerpc = "calling"
    /\ termRecv = [i \in Repos |-> 0]
    /\ termDropped = {}
    /\ cloneInvoked = {}
    /\ statFound = [i \in Repos |-> ""]

\* what the message loop of the installation screen leaves alone
teaInstFrame == <<site, fs, cloneVars, repositories, inst_semaphore, result,
                  projectType, allSuccessful, executed, callerpc, termRecv,
                  termDropped, repo_Name, config_CreateSubdirs, execVars, detVars,
                  callVars, autoSubdirs, cloneStarted>>

\* InstallationModel.startInstallationProcess (search.go:966-981), the command
\* Init returns
TeaStartInstallationProcess ==
    /\ site = "teainstall"
    /\ teapc = "init"
    /\ IF Len(repositories) = 0
       THEN /\ teamsg' = SystemInstallMsg("no repositories to install dependencies for")
            /\ teapc' = "progressMsg"
            /\ UNCHANGED <<newManagerArg, m_concurrent, m_skipOnError>>
       ELSE /\ newManagerArg' = InstallSiteConcurrent
            /\ m_concurrent' = NewManagerConcurrent(InstallSiteConcurrent)
            /\ m_skipOnError' = TRUE
            /\ teapc' = "startMsg"
            /\ UNCHANGED teamsg
    /\ UNCHANGED <<teaInstFrame, uiVars, invVars, ctxCancelled, m_progress, m_closed,
                   results, inst_wg, iw>>

\* InstallationModel.Update, case InstallStartMsg (search.go:782-787)
TeaUpdateInstallStart ==
    /\ site = "teainstall"
    /\ teapc = "startMsg"
    /\ IF ~started
       THEN started' = TRUE /\ teapc' = "monitor"
       ELSE started' = started /\ teapc' = "idle"
    /\ UNCHANGED <<teaInstFrame, uiVars, invpc, teamsg, ctxCancelled, newManagerArg,
                   m_concurrent, m_skipOnError, m_progress, m_closed, results,
                   inst_wg, iw>>

\* the calls monitorProgress has started so far
InvocationsStarted == {k \in Invocations : invpc[k] # "off"}

\* InstallationModel.monitorProgress (search.go:985-988): the goroutine that
\* calls InstallDependencies is started, and that call (part_001:938-949)
\* makes its results, adds its worker to its WaitGroup and starts it.
TeaInstMonitorSpawn ==
    /\ site = "teainstall"
    /\ teapc = "monitor"
    /\ ~Panicked
    /\ \E k \in Invocations :
          /\ invpc[k] = "off"
          /\ \A j \in Invocations : j < k => invpc[j] # "off"
          /\ invpc' = [invpc EXCEPT ![k] = "running"]
          /\ results' = [results EXCEPT ![k] = ZeroInstallResult]
          /\ inst_wg' = inst_wg + 1
          /\ iw' = [iw EXCEPT ![k] = "acquire"]
    /\ teapc' = "select"
    /\ UNCHANGED <<teaInstFrame, uiVars, started, teamsg, ctxCancelled, newManagerArg,
                   m_concurrent, m_skipOnError, m_progress, m_closed>>

\* InstallationModel.monitorProgress (search.go:994-1019): the select
TeaInstMonitorSelect ==
    /\ site = "teainstall"
    /\ teapc = "select"
    /\ ~Panicked
    /\ \/ /\ Len(m_progress) > 0
          /\ teamsg' = InstallProgressMsg(Head(m_progress))
          /\ m_progress' = Tail(m_progress)
          /\ teapc' = "progressMsg"
       \/ /\ Len(m_progress) = 0
          /\ m_closed
          /\ teapc' = "completeMsg"
          /\ UNCHANGED <<teamsg, m_progress>>
       \/ /\ ctxCancelled
          /\ teapc' = "completeMsg"
          /\ UNCHANGED <<teamsg, m_progress>>
       \/ /\ Len(m_progress) = 0
          /\ ~m_closed
          /\ teamsg' = SystemInstallMsg("installation timeout - no progress received")
          /\ teapc' = "progressMsg"
          /\ UNCHANGED m_progress
    /\ UNCHANGED <<teaInstFrame, uiVars, invVars, ctxCancelled, newManagerArg,
                   m_concurrent, m_skipOnError, m_closed, results, inst_wg, iw>>

\* InstallationModel.handleProgressUpdate (search.go:1023-1059)
TeaInstHandleProgressUpdate ==
    /\ site = "teainstall"
    /\ teapc = "progressMsg"
    /\ LET msg == teamsg
           system == msg.Repository = "system"
           i  == IF system THEN 1 ELSE PathOf(Base(<<msg.Repository>>))
           counted == msg.Completed /\ ~system
           sc == IF counted /\ msg.Error = "" THEN successCount + 1 ELSE successCount
           ec == IF counted /\ msg.Error # "" THEN errorCount + 1 ELSE errorCount
       IN /\ statuses' = IF system THEN statuses ELSE [statuses EXCEPT ![i] = msg.Status]
          /\ completed' = IF counted THEN completed \cup {i} ELSE completed
          /\ errors' = IF counted /\ msg.Error # "" THEN errors \cup {i} ELSE errors
          /\ successCount' = sc
          /\ errorCount' = ec
          /\ IF msg.Completed /\ sc + ec >= LenRepositories
             THEN teapc' = "completeMsg" /\ UNCHANGED allCompleted
             ELSE IF system /\ msg.Error # ""
             THEN teapc' = "idle" /\ allCompleted' = TRUE
             ELSE teapc' = "monitor" /\ UNCHANGED allCompleted
    /\ teamsg' = NoInstallMsg
    /\ UNCHANGED <<teaInstFrame, invVars, ctxCancelled, newManagerArg, m_concurrent,
                   m_skipOnError, m_progress, m_closed, results, inst_wg, iw>>

\* InstallationModel.Update, case InstallCompleteMsg (search.go:778-780)
TeaUpdateInstallComplete ==
    /\ site = "teainstall"
    /\ teapc = "completeMsg"
    /\ allCompleted' = TRUE
    /\ teapc' = "idle"
    /\ UNCHANGED <<teaInstFrame, invVars, teamsg, ctxCancelled, newManagerArg,
                   m_concurrent, m_skipOnError, m_progress, m_closed, results,
                   inst_wg, iw, statuses, completed, errors, successCount,
                   errorCount>>

\* InstallationModel.Update, ctrl+c (search.go:758-762): m.cancel() unless all
\* is completed
TeaInstCancel ==
    /\ site = "teainstall"
    /\ ~allCompleted
    /\ ~Panicked
    /\ Cancel

\* positions of installForRepository at which the next step may be
\* m.sendProgress
InstallSendPositions == {"sendDetecting", "sendInstalling", "sendRunning", "exec",
                         "terminal"}

\* a step of the worker of call k that is no send on a closed channel
TeaInstallWorkerStep(k) ==
    /\ site = "teainstall"
    /\ ~Panicked
    /\ InstallWorkerStep(k)
    /\ m_closed => m_progress' = m_progress

\* Manager.sendProgress (part_001:1191-1202) after another call has closed
\* m.progress: the send panics
TeaInstSendOnClosed(k) ==
    /\ site = "teainstall"
    /\ ~Panicked
    /\ m_closed
    /\ iw[k] \in InstallSendPositions
    /\ iw' = [iw EXCEPT ![k] = "panic"]
    /\ UNCHANGED <<teaInstFrame, uiVars, teaVars, invVars, ctxCancelled, newManagerArg,
                   m_concurrent, m_skipOnError, m_progress, m_closed, results, inst_wg>>

\* Manager.InstallDependencies of call k (part_001:954-957): its wg.Wait()
\* returns and it closes m.progress; closing a closed channel panics
TeaInstallReturn(k) ==
    /\ site = "teainstall"
    /\ ~Panicked
    /\ invpc[k] = "running"
    /\ iw[k] = "done"
    /\ IF m_closed
       THEN invpc' = [invpc EXCEPT ![k] = "panic"] /\ UNCHANGED m_closed
       ELSE invpc' = [invpc EXCEPT ![k] = "returned"] /\ m_closed' = TRUE
    /\ UNCHANGED <<teaInstFrame, uiVars, teaVars, started, ctxCancelled, newManagerArg,
                   m_concurrent, m_skipOnError, m_progress, results, inst_wg, iw>>

TeaInstallNext ==
    \/ TeaStartInstallationProcess
    \/ TeaUpdateInstallStart
    \/ TeaInstMonitorSpawn
    \/ TeaInstMonitorSelect
    \/ TeaInstHandleProgressUpdate
    \/ TeaUpdateInstallComplete
    \/ TeaInstCancel
    \/ \E k \in Invocations : TeaInstallWorkerStep(k)
    \/ \E k \in Invocations : TeaInstSendOnClosed(k)
    \/ \E k \in Invocations : TeaInstallReturn(k)

TeaInstallSpec == TeaInstallInit /\ [][TeaInstallNext]_vars

\* --------------------------------------------------------------------- C28
\* C28 (as claimed): for one installation screen InstallDependencies is
\* invoked at most one time, however many progress messages are handled.
C28_InstallStartedAtMostOnce == Cardinality(InvocationsStarted) <= 1

\* two calls of InstallDependencies are installing the same path at the same
\* time, each with a subprocess running in it
C28_Witness ==
    \E j, k \in Invocations :
        /\ j # k
        /\ InstallPath(j) = InstallPath(k)
        /\ invpc[j] = "running" /\ invpc[k] = "running"
        /\ iw[j] = "exec" /\ iw[k] = "exec"

\* what does hold: the first call is started by the one InstallStartMsg, and
\* every further call follows a progress message that was handled
FurtherCallsFollowMessages ==
    Cardinality(InvocationsStarted) > 1 =>
        \E i \in Repos : statuses[i] # ""

\* --------------------------------------------------------------------- C29
\* C29 (as claimed): over any sequence of operations on one Manager its
\* progress channel is closed at most once: no InstallDependencies call
\* reaches close(m.progress) after another call has run it.
C29_ChannelClosedAtMostOnce == \A k \in Invocations : invpc[k] # "panic"

\* one call has closed the channel and returned, and a later call on the
\* same Manager has run close(m.progress) on the closed channel
C29_Witness ==
    \E j, k \in Invocations :
        /\ j # k
        /\ invpc[j] = "returned"
        /\ invpc[k] = "panic"
        /\ m_closed

\* what does hold: as long as one call only has been started on the Manager,
\* nothing closes the channel twice and nothing sends on it after the close
SingleCallClosesOnce ==
    Cardinality(InvocationsStarted) <= 1 => ~Panicked

\* --------------------------------------------------------------------- C30
\* worker j has cloned its destination, or is cloning it
ClonedOrCloning(j) ==
    \/ cw[j] = "cloning"
    \/ j \in cloneInvoked /\ progress[j].Status = "Completed"

\* C30 (as claimed): the failure cleanup of a clone worker (os.RemoveAll of
\* its target path) never removes a destination that another worker of the
\* same batch has cloned or is cloning, even when both items resolve to the
\* same path and both passed the existence check.
C30_CleanupRemovesOwnOnly ==
    [][\A i \in Repos :
          (cw[i] = "cleanup" /\ cw'[i] = "terminal")
              => \A j \in Repos \ {i} :
                    (ClonedOrCloning(j) /\ TargetPath(j) \in fs)
                        => TargetPath(j) \in fs']_vars

\* without any cancellation: one worker's clone has failed and its cleanup
\* has run, and the destination another worker cloned successfully is gone
C30_Witness ==
    \E i, j \in Repos :
        /\ i # j
        /\ ~ctxCancelled
        /\ TargetPath(i) = TargetPath(j)
        /\ statFound[i] = "absent" /\ statFound[j] = "absent"
        /\ progress[i].Status = "Failed" /\ cw[i] \in {"terminal", "exit", "done"}
        /\ progress[j].Status = "Completed"
        /\ TargetPath(j) \notin fs

\* the part of C30 that holds: a worker that reaches the cleanup found its
\* target path absent, so a directory that existed before the batch is never
\* removed
CleanupOnlyAfterAbsent ==
    \A i \in Repos : cw[i] = "cleanup" => statFound[i] = "absent"

\* --------------------------------------------------------------------- C31
\* the step enqueues an event that is not a terminal one
EnqueuesIntermediate(chan, chanNext) ==
    /\ Len(chanNext) = Len(chan) + 1
    /\ ~chanNext[Len(chanNext)].Completed

\* the worker of the executeCommand call has enqueued the item's terminal
\* event
ExecTerminalEnqueued ==
    /\ gpc["worker"] \in {"exit", "done"}
    /\ ExecItem \notin termDropped

\* C31 (as claimed): once the completed=true event of an item has been
\* enqueued, no intermediate status of that item (output line, heartbeat
\* "Running...", git progress line) is enqueued.
C31_TerminalIsLast ==
    [][ExecTerminalEnqueued => ~EnqueuesIntermediate(m_progress, m_progress')]_vars

\* the reader has taken the terminal event from the channel and a heartbeat
\* of the same item is in the buffer behind it
C31_Witness ==
    /\ ExecTerminalEnqueued
    /\ Len(m_progress) > 0
    /\ \A n \in 1..Len(m_progress) : m_progress[n] = ExecEvent("tick")

\* the clone side of C31: git progress lines are written inside
\* PlainCloneContext, so none is enqueued once the worker is past it
CloneTerminalIsLast ==
    [][\A i \in Repos :
          cw[i] \in {"exit", "done"}
              => ~(/\ EnqueuesIntermediate(cm_progress, cm_progress')
                   /\ cm_progress'[Len(cm_progress')].Repository = Repository(i).FullName)]_vars

\* the stdout reader is joined before the terminal event: no output line
\* follows it
OutputLinesBeforeTerminal ==
    gpc["worker"] \in {"terminal", "send:terminal", "retry:terminal", "exit", "done"}
        => gpc["stdout"] \in {"off", "done"}

\* --------------------------------------------------------------------- C32
\* CloningModel.getSuccessfullyClonedPaths (part_006:934-950): per repository
\* that is completed and has no entry in errors, the path handed to the
\* installation step (below targetDir)
getSuccessfullyClonedPaths ==
    [i \in {r \in Repos : r \in completed /\ r \notin errors} |->
        IF config_CreateSubdirs
        THEN <<Repository(i).Owner, Repository(i).Name>>
        ELSE <<Repository(i).Name>>]

\* CloningModel.Update, "enter" (part_006:514-521): the clone screen hands
\* the paths over
HandsPathsOver == site = "tea" /\ allCompleted /\ successCount > 0

\* C32 (as claimed): every path the clone screen hands to the installation
\* step equals the destination the clone worker used for that repository,
\* also when the namespaced layout was switched on automatically.
C32_HandedPathsAreDestinations ==
    HandsPathsOver =>
        \A i \in DOMAIN getSuccessfullyClonedPaths :
            getSuccessfullyClonedPaths[i] = TargetPath(i)

\* the layout was switched on automatically, a repository was cloned into
\* targetDir/owner/name, and the path handed over for it is targetDir/name,
\* which does not exist
C32_Witness ==
    /\ HandsPathsOver
    /\ autoSubdirs
    /\ \E i \in DOMAIN getSuccessfullyClonedPaths :
          /\ progress[i].Status = "Completed"
          /\ TargetPath(i) \in fs
          /\ getSuccessfullyClonedPaths[i] # TargetPath(i)
          /\ getSuccessfullyClonedPaths[i] \notin fs

\* the part of C32 that holds: unless the layout was switched on
\* automatically, the paths handed over are the workers' destinations
HandedPathsAgreeWithoutAutoSubdirs ==
    (HandsPathsOver /\ ~autoSubdirs) =>
        \A i \in DOMAIN getSuccessfullyClonedPaths :
            getSuccessfullyClonedPaths[i] = TargetPath(i)

\* --------------------------------------------------------------------- C33
\* C33 (as claimed): the bubbletea clone screen marks the batch complete only
\* after the terminal event of every item has been processed or the user has
\* cancelled; a monitor timeout while workers are running does not.
C33_CompleteOnlyWhenAllProcessed ==
    (site = "tea" /\ allCompleted) => (completed = Repos \/ ctxCancelled)

\* nobody cancelled, a worker is still cloning, and the clone screen reports
\* completion and has stopped monitoring the channel
C33_Witness ==
    /\ site = "tea"
    /\ allCompleted
    /\ teapc = "idle"
    /\ ~ctxCancelled
    /\ \E i \in Repos : cw[i] = "cloning" /\ i \notin completed

\* the same statement for the installation screen; it fails as well, on the
\* 5 s timeout (search.go:1014-1017, 1052-1056)
InstallCompleteOnlyWhenAllProcessed ==
    (site = "teainstall" /\ allCompleted /\ LenRepositories > 0)
        => (Cardinality(completed) >= LenRepositories \/ ctxCancelled \/ m_closed)

\* --------------------------------------------------------------------- C34
\* the event the consumer of the clone channel receives next is the terminal
\* "Failed" event of repo i
ObservesFailed(i) ==
    /\ Len(cm_progress) > 0
    /\ Head(cm_progress).Completed
    /\ Head(cm_progress).Status = "Failed"
    /\ Head(cm_progress).Repository = Repository(i).FullName

\* C34 (as claimed): whenever a consumer observes a terminal "Failed" clone
\* event, the destination path of that item does not exist.
C34_FailedMeansRemoved ==
    \A i \in Repos : ObservesFailed(i) => TargetPath(i) \notin fs

\* the "Failed" event of one item is about to be received, its worker has run
\* the cleanup, and the destination exists: another worker cloned into it
C34_Witness ==
    \E i \in Repos :
        /\ ObservesFailed(i)
        /\ cw[i] \in {"exit", "done"}
        /\ TargetPath(i) \in fs
        /\ \E j \in Repos \ {i} : TargetPath(j) = TargetPath(i) /\ j \in cloneInvoked

\* the order inside the worker, which holds: when the worker of a failed
\* clone is at its terminal send, its cleanup has run (clone.go:152-162)
CleanupBeforeTerminalSend ==
    [][\A i \in Repos :
          (cw[i] = "cleanup" /\ cw'[i] # "cleanup")
              => (cw'[i] = "terminal" /\ TargetPath(i) \notin fs')]_vars

\* with every item on a path of its own the claim holds
FailedMeansRemovedOnOwnPath ==
    \A i \in Repos :
        (ObservesFailed(i) /\ \A j \in Repos \ {i} : TargetPath(j) # TargetPath(i))
            => TargetPath(i) \notin fs

\* --------------------------------------------------------------------- C35
\* positions at which the next step of a clone worker is its first (and
\* only) attempt to send an event: cm.sendProgress (clone.go:194-200)
CloneSendPositions == {"starting", "sendCloning", "terminal"}

\* the step is clone worker i giving an event up: it leaves a send position
\* and the channel has not taken the event
CloneGivesUp(i) ==
    /\ cw[i] \in CloneSendPositions
    /\ cw'[i] # cw[i]
    /\ cm_progress' = cm_progress

\* C35 (as claimed): on a full buffer every producer of both managers waits
\* and retries once before it drops the event, so no clone worker gives an
\* event up at its first attempt to send it.
C35_CloneRetriesBeforeDrop ==
    [][\A i \in Repos : ~CloneGivesUp(i)]_vars

\* a clone worker has ended, its terminal event was dropped at the one
\* attempt to send it, and the reader has received no terminal event from it
C35_Witness ==
    \E i \in Repos :
        /\ site \in CloneSites
        /\ cw[i] \in {"exit", "done"}
        /\ i \in termDropped
        /\ termRecv[i] = 0

\* the install half of C35, which holds: a goroutine that finds the buffer
\* full at its first attempt goes on to a second attempt, and only that one
\* gives the event up (part_001:1191-1202)
InstallRetriesBeforeDrop ==
    [][\A g \in Goroutines, kind \in EventKinds :
          (gpc[g] = SendPos(kind) /\ gpc'[g] # gpc[g] /\ m_progress' = m_progress)
              => gpc'[g] \in {RetryPos(kind), "panic"}]_vars

\* --------------------------------------------------------------------- C36
\* executeCommand has returned its CommandResult: the worker is at the
\* item's terminal event or beyond (where a next command would start)
CommandResultProduced ==
    gpc["worker"] \in {"terminal", "send:terminal", "retry:terminal", "exit", "done"}

\* the subprocess of the call was started (part_001:1095-1106)
SubprocessStarted == gpc["stdout"] # "off"

\* C36: the result of a command is produced only after the subprocess has
\* exited and both the stdout reader and the stderr reader have finished;
\* neither the next step of the item nor its terminal event starts while a
\* reader of the command is still running.
C36_ResultAfterExitAndReaders ==
    (CommandResultProduced /\ SubprocessStarted) =>
        /\ procExited
        /\ gpc["stdout"] = "done"
        /\ gpc["stderr"] = "done"
        /\ exec_wg = 0

\* the subprocess wrote a line that the stdout reader passed on, both readers
\* have finished, and the worker is sending the item's terminal event
C36_Witness ==
    /\ InSendProgress("worker")
    /\ CommandResultProduced
    /\ SubprocessStarted
    /\ procExited
    /\ gpc["stdout"] = "done" /\ gpc["stderr"] = "done"
    /\ \E n \in 1..Len(m_progress) : m_progress[n] = ExecEvent("line")

\* ================================ single calls of functions of clone.go
\* conventional key files below ~/.ssh, in the order getSSHAuth tries them
\* (clone.go:173-177)
DefaultKeyNames == <<"id_rsa", "id_ed25519", "id_ecdsa">>

\* the first conventional key file that exists, "" when none does
\* (clone.go:179-184)
RECURSIVE FirstExistingKey(_, _)
FirstExistingKey(keyFiles, n) ==
    IF n > Len(DefaultKeyNames) THEN ""
    ELSE IF DefaultKeyNames[n] \in keyFiles THEN DefaultKeyNames[n]
    ELSE FirstExistingKey(keyFiles, n + 1)

\* CloneManager.getSSHAuth (clone.go:165-192): the key file it loads, or an
\* error (ok = FALSE)
getSSHAuth(in) ==
    LET key == IF in.sshKey # "" THEN in.sshKey
               ELSE IF ~in.homeDir THEN ""
               ELSE FirstExistingKey(in.keyFiles, 1)
    IN IF key = "" THEN [ok |-> FALSE, key |-> ""]
       ELSE [ok |-> in.keyLoads, key |-> key]

\* cloneWorker (clone.go:129-145): the URL and Auth of the CloneOptions
CloneAuth(in) ==
    IF in.token # ""
    THEN [Called |-> TRUE, URL |-> "https", Auth |-> "token", Key |-> ""]
    ELSE IF in.sshKey # "" /\ in.SSHURL # "" /\ getSSHAuth(in).ok
    THEN [Called |-> TRUE, URL |-> "ssh", Auth |-> "key", Key |-> getSSHAuth(in).key]
    ELSE [Called |-> TRUE, URL |-> "https", Auth |-> "none", Key |-> ""]

AuthInputs ==
    [token : {"", "ghp_token"}, sshKey : {"", "/keys/work"},
     SSHURL : {"", "git@github.com:alice/app.git"}, homeDir : BOOLEAN,
     keyFiles : SUBSET {"id_rsa", "id_ed25519", "id_ecdsa"}, keyLoads : BOOLEAN]

\* characters before a "%" in the model
FragmentChars == {" ", "0", "1", "5", "x"}
\* clone.go:226, 240 : start := idx - 3
FragmentLen == 3

\* what is written to the progressWriter: the phase its text names, whether a
\* "%" follows, and the characters between the phase's "objects:" / "deltas:"
\* and the "%"
WriteInputs ==
    [phase : {"Counting objects", "Compressing objects", "Receiving objects",
              "Resolving deltas", "Enumerating objects"},
     hasPercent : BOOLEAN,
     before : UNION {[1..n -> FragmentChars] : n \in 0..FragmentLen}]

CallInit ==
    /\ site = "call"
    /\ NothingStarted
    /\ ExecIdle
    /\ DetectIdle
    /\ newManagerArg = 0
    /\ m_concurrent = NewManagerConcurrent(newManagerArg)
    /\ m_skipOnError = FALSE
    /\ callerpc = "calling"
    /\ auth_out = NoAuth
    /\ pw_out = NoWrite
    /\ \/ auth_in \in AuthInputs /\ pw_in = NoOutput
       \/ auth_in = NoAuthIn /\ pw_in \in WriteInputs

callFrame == <<site, ctxCancelled, fs, cloneVars, installVars, callerpc, termRecv,
               termDropped, repo_Name, config_CreateSubdirs, execVars, detVars,
               invVars, uiVars, teaVars>>

\* cloneWorker builds its CloneOptions (clone.go:129-145)
ChooseAuth ==
    /\ site = "call"
    /\ pw_in = NoOutput
    /\ ~auth_out.Called
    /\ auth_out' = CloneAuth(auth_in)
    /\ UNCHANGED <<callFrame, auth_in, pw_in, pw_out>>

\* strings.TrimSpace on a sequence of characters
RECURSIVE TrimLeft(_)
TrimLeft(str) ==
    IF Len(str) > 0 /\ Head(str) = " " THEN TrimLeft(Tail(str)) ELSE str
RECURSIVE TrimRight(_)
TrimRight(str) ==
    IF Len(str) > 0 /\ str[Len(str)] = " "
    THEN TrimRight(SubSeq(str, 1, Len(str) - 1)) ELSE str
TrimSpace(str) == TrimRight(TrimLeft(str))

DigitValue(c) == CASE c = "0" -> 0 [] c = "1" -> 1 [] c = "5" -> 5
IsDigit(c) == c \in {"0", "1", "5"}

\* fmt.Sscanf(s, "%d", &percent): the decimal digits at the front of s are
\* read, what follows is left alone; without a digit at the front it fails
RECURSIVE ScanDigits(_, _)
ScanDigits(str, acc) ==
    IF Len(str) > 0 /\ IsDigit(Head(str))
    THEN ScanDigits(Tail(str), acc * 10 + DigitValue(Head(str)))
    ELSE acc
SscanfInt(str) ==
    IF Len(str) > 0 /\ IsDigit(Head(str))
    THEN [err |-> FALSE, value |-> ScanDigits(str, 0)]
    ELSE [err |-> TRUE, value |-> 0]

\* parsePercentage (clone.go:267-275)
parsePercentage(str) ==
    LET r == SscanfInt(TrimSpace(str))
    IN IF r.err THEN 0 ELSE r.value

\* output[start:idx] (clone.go:225-230, 239-244): the three characters before
\* the first "%"; the text before it ends with the phase's "objects:" or
\* "deltas:" (its last three characters are kept) and the characters of the
\* input
PercentStr(in) ==
    LET text == <<"t", "s", ":">> \o in.before
    IN TrimSpace(SubSeq(text, Len(text) - FragmentLen + 1, Len(text)))

\* progressWriter.Write (clone.go:207-250): progressValue, in thousandths
WriteValue(in) ==
    LET percent == IF in.hasPercent THEN parsePercentage(PercentStr(in)) ELSE 0
    IN CASE in.phase = "Counting objects" -> 200
         [] in.phase = "Compressing objects" -> 400
         [] in.phase = "Receiving objects" ->
                IF percent > 0 THEN 400 + percent * 4 ELSE 600
         [] in.phase = "Resolving deltas" ->
                IF percent > 0 THEN 800 + percent * 2 ELSE 800
         [] OTHER -> 0

\* progressWriter.Write (clone.go:207-265): status is set for the four
\* phases, and only then an event is sent; it returns len(p), nil
WriteStatus(in) ==
    IF in.phase \in {"Counting objects", "Compressing objects", "Receiving objects",
                     "Resolving deltas"}
    THEN in.phase ELSE ""

\* one call of progressWriter.Write
WriteCall ==
    /\ site = "call"
    /\ auth_in = NoAuthIn
    /\ pw_in.phase # ""
    /\ ~pw_out.Called
    /\ pw_out' = [Called |-> TRUE, Sent |-> WriteStatus(pw_in) # "",
                  Status |-> WriteStatus(pw_in), Progress |-> WriteValue(pw_in)]
    /\ UNCHANGED <<callFrame, auth_in, auth_out, pw_in>>

CallNext == ChooseAuth \/ WriteCall

CallSpec == CallInit /\ [][CallNext]_vars

\* --------------------------------------------------------------------- C37
\* the key the claim expects the key-based transport to use: the explicit
\* path when one was set, else the first existing conventional key file
ExpectedKey(in) ==
    IF in.sshKey # "" THEN in.sshKey
    ELSE IF in.homeDir THEN FirstExistingKey(in.keyFiles, 1) ELSE ""

\* C37 (as claimed): with a token the clone uses token-based HTTPS; with no
\* token and an SSH URL it uses key-based transport with the explicit key or,
\* when no key path was configured, the first existing conventional key.
C37_AuthSelection ==
    auth_out.Called =>
        /\ auth_in.token # "" => (auth_out.URL = "https" /\ auth_out.Auth = "token")
        /\ (/\ auth_in.token = ""
            /\ auth_in.SSHURL # ""
            /\ ExpectedKey(auth_in) # ""
            /\ auth_in.keyLoads)
              => /\ auth_out.URL = "ssh"
                 /\ auth_out.Auth = "key"
                 /\ auth_out.Key = ExpectedKey(auth_in)

\* no token, the repository has an SSH URL, no key path was configured and
\* ~/.ssh/id_ed25519 exists and loads: the clone goes over HTTPS without
\* credentials
C37_Witness ==
    /\ auth_out.Called
    /\ auth_in.token = ""
    /\ auth_in.SSHURL # ""
    /\ auth_in.sshKey = ""
    /\ auth_in.homeDir
    /\ auth_in.keyFiles = {"id_ed25519", "id_ecdsa"}
    /\ auth_in.keyLoads
    /\ auth_out.URL = "https"
    /\ auth_out.Auth = "none"

\* the parts of C37 that hold: a token always wins, and a key path that was
\* set explicitly is the key used
TokenOrExplicitKey ==
    auth_out.Called =>
        /\ auth_in.token # "" => (auth_out.URL = "https" /\ auth_out.Auth = "token")
        /\ (/\ auth_in.token = "" /\ auth_in.SSHURL # ""
            /\ auth_in.sshKey # "" /\ auth_in.keyLoads)
              => (auth_out.Auth = "key" /\ auth_out.Key = auth_in.sshKey)

\* --------------------------------------------------------------------- C38
\* the percentage embedded in what was written, as parsePercentage reads it
EmbeddedPercent(in) == SscanfInt(PercentStr(in))

\* the value the claim gives a written line, in thousandths: the band's start
\* without a parseable percentage, the start plus the share of the band with
\* a percentage p
ClaimedValue(in) ==
    LET r == EmbeddedPercent(in)
        p == IF in.hasPercent /\ ~r.err THEN r.value ELSE 0
    IN CASE in.phase = "Counting objects" -> 200
         [] in.phase = "Compressing objects" -> 400
         [] in.phase = "Receiving objects" -> 400 + p * 4
         [] in.phase = "Resolving deltas" -> 800 + p * 2

\* the input is one the claim speaks of: a phase line whose percentage, if it
\* has a parseable one, is in 0..100
ClaimedInput(in) ==
    /\ WriteStatus(in) # ""
    /\ (in.hasPercent /\ ~EmbeddedPercent(in).err) => EmbeddedPercent(in).value \in 0..100

\* C38 (as claimed): counting maps to 0.2, compressing to 0.4, receiving to
\* 0.4+0.4*p/100 and resolving deltas to 0.8+0.2*p/100 for a parseable
\* percentage p in 0..100, and to the band's start value when the percentage
\* is unparseable.
C38_ProgressTranslation ==
    (pw_out.Called /\ ClaimedInput(pw_in)) =>
        /\ pw_out.Sent
        /\ pw_out.Progress = ClaimedValue(pw_in)

\* "Receiving objects" with a fragment before the "%" that does not parse:
\* the event carries 0.6, the middle of the band 0.4..0.8
C38_Witness ==
    /\ pw_out.Called
    /\ pw_in.phase = "Receiving objects"
    /\ pw_in.hasPercent
    /\ EmbeddedPercent(pw_in).err
    /\ pw_out.Sent
    /\ pw_out.Progress = 600

\* the band of a phase, in thousandths
BandOf(phase) ==
    CASE phase = "Counting objects" -> 200..200
      [] phase = "Compressing objects" -> 400..400
      [] phase = "Receiving objects" -> 400..800
      [] phase = "Resolving deltas" -> 800..1000

\* the parts of C38 that hold: for the inputs the claim speaks of the value
\* lies in 0..1 and in the band of its phase, and it is the claimed value
\* whenever the percentage is positive or the phase is not "Receiving objects"
ValueInBand ==
    (pw_out.Called /\ ClaimedInput(pw_in)) =>
        /\ pw_out.Progress \in 0..1000
        /\ pw_out.Progress \in BandOf(pw_in.phase)
        /\ (pw_in.phase # "Receiving objects"
            \/ (pw_in.hasPercent /\ EmbeddedPercent(pw_in).value > 0))
              => pw_out.Progress = ClaimedValue(pw_in)

====
